---- MODULE Spec2Model ----
(***************************************************************************)
(* n1mm_view collector: the message ingestion and persistence pipeline of  *)
(* src/collector.py.  One datagram is a sequence of lexical units (markup  *)
(* tokens and character-data bytes); process_message normalises it, runs   *)
(* the expat-driven N1mmMessageParser over it, dispatches on the message   *)
(* type and validates and persists the record.                             *)
(*                                                                         *)
(* Text is a sequence of one-character strings, so that hyphen stripping,  *)
(* concatenation, upper-casing and numeric/timestamp conversion are        *)
(* computed as the code computes them.                                     *)
(***************************************************************************)
EXTENDS Integers, Sequences, FiniteSets, TLC

(***************************************************************************)
(* Python values                                                           *)
(***************************************************************************)
\* Python None where a text value is expected (no text has a 4-character unit)
None == <<"None">>

\* Python None where a number is expected
NoneNum == -1

Digits == <<"0", "1", "2", "3", "4", "5", "6", "7", "8", "9">>

LowerChars == <<"a", "b", "c", "d", "e", "f", "g", "h", "i", "j", "k", "l", "m",
                "n", "o", "p", "q", "r", "s", "t", "u", "v", "w", "x", "y", "z">>

UpperChars == <<"A", "B", "C", "D", "E", "F", "G", "H", "I", "J", "K", "L", "M",
                "N", "O", "P", "Q", "R", "S", "T", "U", "V", "W", "X", "Y", "Z">>

IsDigit(c) == \E i \in 1..10 : Digits[i] = c

DigitVal(c) == (CHOOSE i \in 1..10 : Digits[i] = c) - 1

IsSpace(c) == c \in {" ", "\n", "\t"}

\* str.upper() on one character
UpperChar(c) ==
    IF \E i \in 1..26 : LowerChars[i] = c
    THEN UpperChars[CHOOSE i \in 1..26 : LowerChars[i] = c]
    ELSE c

\* str.upper()
Upper(s) == [i \in 1..Len(s) |-> UpperChar(s[i])]

\* str.replace('-', '')
\* variants of replace('-', ''): no replacement, and replace('-', '', 1)
KeepHyphens(s) == s

StripFirstHyphen(s) ==
    IF \E i \in 1..Len(s) : s[i] = "-"
    THEN LET i == CHOOSE i \in 1..Len(s) : s[i] = "-" /\ \A j \in 1..(i - 1) : s[j] # "-"
         IN  SubSeq(s, 1, i - 1) \o SubSeq(s, i + 1, Len(s))
    ELSE s

RECURSIVE StripHyphens(_)
StripHyphens(s) ==
    IF s = <<>> THEN <<>>
    ELSE IF Head(s) = "-" THEN StripHyphens(Tail(s))
    ELSE <<Head(s)>> \o StripHyphens(Tail(s))

\* dict.get(key, default)
Get(data, key, default) == IF key \in DOMAIN data THEN data[key] ELSE default

\* dict[key] = value
Put(data, key, value) ==
    [k \in (DOMAIN data) \cup {key} |-> IF k = key THEN value ELSE data[k]]

EmptyDict == [k \in {} |-> <<>>]

(***************************************************************************)
(* int(str): optional surrounding whitespace, optional sign, decimal       *)
(* digits.  Anything else raises ValueError.                               *)
(***************************************************************************)
RECURSIVE LStrip(_)
LStrip(s) == IF s # <<>> /\ IsSpace(Head(s)) THEN LStrip(Tail(s)) ELSE s

RECURSIVE RStrip(_)
RStrip(s) ==
    IF s # <<>> /\ IsSpace(s[Len(s)]) THEN RStrip(SubSeq(s, 1, Len(s) - 1)) ELSE s

RECURSIVE DigitsValue(_, _)
DigitsValue(s, acc) ==
    IF s = <<>> THEN acc ELSE DigitsValue(Tail(s), acc * 10 + DigitVal(Head(s)))

AllDigits(s) == s # <<>> /\ \A i \in 1..Len(s) : IsDigit(s[i])

\* [ok |-> FALSE] stands for ValueError
\* variant of int(): the sign is read and dropped
ParseIntUnsigned(str) ==
    LET s    == RStrip(LStrip(str))
        sign == IF s # <<>> /\ Head(s) \in {"-", "+"} THEN Head(s) ELSE ""
        body == IF sign = "" THEN s ELSE Tail(s)
    IN  IF AllDigits(body)
        THEN [ok |-> TRUE, val |-> DigitsValue(body, 0)]
        ELSE [ok |-> FALSE, val |-> 0]

ParseInt(str) ==
    LET s    == RStrip(LStrip(str))
        sign == IF s # <<>> /\ Head(s) \in {"-", "+"} THEN Head(s) ELSE ""
        body == IF sign = "" THEN s ELSE Tail(s)
    IN  IF AllDigits(body)
        THEN [ok |-> TRUE,
              val |-> IF sign = "-" THEN 0 - DigitsValue(body, 0) ELSE DigitsValue(body, 0)]
        ELSE [ok |-> FALSE, val |-> 0]

(***************************************************************************)
(* Datagrams as sequences of lexical units                                 *)
(***************************************************************************)
Open(n) == [k |-> "open", v |-> n]

Close(n) == [k |-> "close", v |-> n]

Chr(c) == [k |-> "chr", v |-> c]

\* a byte no XML document may contain (NUL, 0xFF, ...)
Bad == [k |-> "bad", v |-> ""]

Chars(s) == [i \in 1..Len(s) |-> Chr(s[i])]

(***************************************************************************)
(* compress_message: state 0 swallows a newline, state 1 swallows the      *)
(* spaces that follow it; every other unit is copied and resets the state. *)
(***************************************************************************)
IsByte10(u) == u.k = "chr" /\ u.v = "\n"

IsByte32(u) == u.k = "chr" /\ u.v = " "

\* one iteration of the loop body on the loop state c = (state, new_msg)
compress_step(c, byte) ==
    IF c.state = 0 /\ IsByte10(byte) THEN [c EXCEPT !.state = 1]
    ELSE IF c.state = 1 /\ IsByte32(byte) THEN c
    ELSE [state |-> 0, new_msg |-> Append(c.new_msg, byte)]

\* the for loop over msg[lo..hi], left to right: the first half, then the
\* second half from the loop state the first half ends in (state is 0 or 1)
RECURSIVE compress_loop(_, _, _, _)
compress_loop(c, msg, lo, hi) ==
    IF c.state \notin {0, 1} \/ lo > hi THEN c
    ELSE IF lo = hi THEN compress_step(c, msg[lo])
    ELSE LET mid == (lo + hi) \div 2
         IN  compress_loop(compress_loop(c, msg, lo, mid), msg, mid + 1, hi)

compress_message(msg) ==
    compress_loop([state |-> 0, new_msg |-> <<>>], msg, 1, Len(msg)).new_msg

(***************************************************************************)
(* N1mmMessageParser.  A parser object is the record of its three fields;  *)
(* an optional value is the empty sequence (None) or a one-element         *)
(* sequence.                                                               *)
(***************************************************************************)
MessageTypeKey == "__messagetype__"

start_element(self, name) ==
    [result |-> IF self.lastElementName # <<>>
                THEN Put(self.result, MessageTypeKey, self.lastElementName[1])
                ELSE self.result,
     lastElementName |-> <<name>>,
     lastElementValue |-> <<>>]

end_element(self, name) ==
    [result |-> IF self.lastElementName # <<>> /\ self.lastElementValue # <<>>
                THEN Put(self.result, self.lastElementName[1], self.lastElementValue[1])
                ELSE self.result,
     lastElementName |-> <<>>,
     lastElementValue |-> <<>>]

char_data(self, data) ==
    [self EXCEPT !.lastElementValue = <<data>>]

(***************************************************************************)
(* xml.parsers.expat: the handler calls one Parse(data) makes, in order,   *)
(* ending with "ExpatError" when the data is not well-formed.  The call is *)
(* not final (Parse(data) without isfinal), so the end of the data is      *)
(* never checked against the open elements.  x is the expat state: the     *)
(* stack of open element names, whether the root has been closed, the      *)
(* pending run of character data, and the calls made so far.  Character    *)
(* data is reported run by run, a newline on its own and the character of  *)
(* an entity reference on its own (the parser is created without           *)
(* buffer_text).  A unit of more than one character is an entity           *)
(* reference as it is written in the datagram.                             *)
(***************************************************************************)
\* the predefined entity the datagrams use, and the character it stands for
AmpEntity == "&amp;"

\* a reference to an entity that is not defined
UndefinedEntity == "&zz;"

Call(handler, arg) == [h |-> handler, a |-> arg]

Flush(x) ==
    IF x.buf = <<>> THEN x
    ELSE [x EXCEPT !.calls = Append(@, Call("CharacterDataHandler", x.buf)), !.buf = <<>>]

ExpatError(x) == [x EXCEPT !.error = TRUE, !.calls = Append(@, Call("ExpatError", <<>>))]

ExpatStep(x0, u) ==
    IF u.k = "chr" THEN
        IF x0.stack = <<>>
        THEN IF IsSpace(u.v) THEN x0 ELSE ExpatError(x0)
        ELSE IF u.v = "\n"
             THEN LET x == Flush(x0)
                  IN  [x EXCEPT !.calls = Append(@, Call("CharacterDataHandler", <<"\n">>))]
        ELSE IF u.v = AmpEntity
             THEN LET x == Flush(x0)
                  IN  [x EXCEPT !.calls = Append(@, Call("CharacterDataHandler", <<"&">>))]
        ELSE IF u.v \in {UndefinedEntity, "&"} THEN ExpatError(Flush(x0))
             ELSE [x0 EXCEPT !.buf = Append(@, u.v)]
    ELSE IF u.k = "open" THEN
        IF x0.closed THEN ExpatError(x0)
        ELSE LET x == Flush(x0)
             IN  [x EXCEPT !.stack = Append(@, u.v),
                           !.calls = Append(@, Call("StartElementHandler", u.v))]
    ELSE IF u.k = "close" THEN
        IF x0.stack = <<>> \/ x0.stack[Len(x0.stack)] # u.v THEN ExpatError(Flush(x0))
        ELSE LET x == Flush(x0)
             IN  [x EXCEPT !.stack = SubSeq(@, 1, Len(@) - 1),
                           !.closed = (Len(x.stack) = 1),
                           !.calls = Append(@, Call("EndElementHandler", u.v))]
    ELSE ExpatError(x0)

\* the units data[lo..hi] in order; nothing is processed after an error
RECURSIVE ExpatLoop(_, _, _, _)
ExpatLoop(x, data, lo, hi) ==
    IF x.error \/ lo > hi THEN x
    ELSE IF lo = hi THEN ExpatStep(x, data[lo])
    ELSE LET mid == (lo + hi) \div 2
         IN  ExpatLoop(ExpatLoop(x, data, lo, mid), data, mid + 1, hi)

\* parser.Parse(data)
Parse(data) ==
    LET x == ExpatLoop([stack |-> <<>>, closed |-> FALSE, buf |-> <<>>,
                        error |-> FALSE, calls |-> <<>>], data, 1, Len(data))
    IN  IF x.error THEN x.calls ELSE Flush(x).calls

\* one handler call on the parser object p.self; p.raised once ExpatError
\* has been raised out of Parse
Handle(p, call) ==
    IF call.h = "StartElementHandler" THEN [p EXCEPT !.self = start_element(@, call.a)]
    ELSE IF call.h = "EndElementHandler" THEN [p EXCEPT !.self = end_element(@, call.a)]
    ELSE IF call.h = "CharacterDataHandler" THEN [p EXCEPT !.self = char_data(@, call.a)]
    ELSE [p EXCEPT !.raised = TRUE]

RECURSIVE HandleAll(_, _, _, _)
HandleAll(p, calls, lo, hi) ==
    IF p.raised \/ lo > hi THEN p
    ELSE IF lo = hi THEN Handle(p, calls[lo])
    ELSE LET mid == (lo + hi) \div 2
         IN  HandleAll(HandleAll(p, calls, lo, mid), calls, mid + 1, hi)

\* variant of N1mmMessageParser.parse: the result and the scratch fields of
\* the call before are kept
parse_without_reset(self, calls) ==
    LET kept == IF self.result = None THEN [self EXCEPT !.result = EmptyDict] ELSE self
    IN  HandleAll([self |-> kept, raised |-> FALSE], calls, 1, Len(calls))

\* N1mmMessageParser.parse, given the handler calls that Parse(data) makes:
\* the scratch fields and the result are reset, then the handlers run.
\* Returns the parser object and whether ExpatError was raised; the return
\* value of parse is self.result.
parse(self, calls) ==
    LET fresh == [self EXCEPT !.lastElementValue = <<>>, !.lastElementName = <<>>,
                              !.result = EmptyDict]
    IN  HandleAll([self |-> fresh, raised |-> FALSE], calls, 1, Len(calls))

\* N1mmMessageParser.__init__
NewParser == [result |-> None, lastElementName |-> <<>>, lastElementValue |-> <<>>]

(***************************************************************************)
(* convert_timestamp: time.strptime(s, '%Y-%m-%d %H:%M:%S').  The result   *)
(* is the tuple (year, month, day, hour, minute, second); ValueError when  *)
(* the text does not match the format.                                     *)
(***************************************************************************)
\* the number of digits at the front of s, at most max
RECURSIVE DigitRun(_, _)
DigitRun(s, max) ==
    IF max = 0 \/ s = <<>> \/ ~IsDigit(Head(s)) THEN 0 ELSE 1 + DigitRun(Tail(s), max - 1)

Drop(s, n) == SubSeq(s, n + 1, Len(s))

\* one numeric directive of lo..hi digits and value range vlo..vhi, then the
\* literal separator sep ("" at the end of the format, " " for \s+)
Directive(st, lo, hi, vlo, vhi, sep) ==
    IF ~st.ok THEN st
    ELSE LET n    == DigitRun(st.rest, hi)
             v    == DigitsValue(SubSeq(st.rest, 1, n), 0)
             rest == Drop(st.rest, n)
             r2   == IF sep = " " THEN LStrip(rest)
                     ELSE IF sep = "" THEN rest
                     ELSE IF rest # <<>> THEN Tail(rest) ELSE rest
             okSep == IF sep = " " THEN rest # <<>> /\ IsSpace(Head(rest))
                      ELSE IF sep = "" THEN rest = <<>>
                      ELSE rest # <<>> /\ Head(rest) = sep
         IN  IF n >= lo /\ v >= vlo /\ v <= vhi /\ okSep
             THEN [ok |-> TRUE, rest |-> r2, vals |-> Append(st.vals, v)]
             ELSE [ok |-> FALSE, rest |-> <<>>, vals |-> <<>>]

IsLeap(y) == (y % 4 = 0 /\ y % 100 # 0) \/ y % 400 = 0

DaysInMonth(y, m) ==
    IF m = 2 THEN (IF IsLeap(y) THEN 29 ELSE 28)
    ELSE IF m \in {4, 6, 9, 11} THEN 30 ELSE 31

\* [ok |-> FALSE] stands for ValueError
\* variant of convert_timestamp: the ValueError of strptime is swallowed and
\* the epoch returned
convert_timestamp_lenient(s) ==
    LET s0 == [ok |-> TRUE, rest |-> s, vals |-> <<>>]
        s1 == Directive(s0, 4, 4, 0, 9999, "-")
        s2 == Directive(s1, 1, 2, 1, 12, "-")
        s3 == Directive(s2, 1, 2, 1, 31, " ")
        s4 == Directive(s3, 1, 2, 0, 23, ":")
        s5 == Directive(s4, 1, 2, 0, 59, ":")
        s6 == Directive(s5, 1, 2, 0, 61, "")
    IN  IF s6.ok /\ s6.vals[3] <= DaysInMonth(s6.vals[1], s6.vals[2])
        THEN [ok |-> TRUE, val |-> s6.vals]
        ELSE [ok |-> TRUE, val |-> <<1970, 1, 1, 0, 0, 0>>]

convert_timestamp(s) ==
    LET s0 == [ok |-> TRUE, rest |-> s, vals |-> <<>>]
        s1 == Directive(s0, 4, 4, 0, 9999, "-")
        s2 == Directive(s1, 1, 2, 1, 12, "-")
        s3 == Directive(s2, 1, 2, 1, 31, " ")
        s4 == Directive(s3, 1, 2, 0, 23, ":")
        s5 == Directive(s4, 1, 2, 0, 59, ":")
        s6 == Directive(s5, 1, 2, 0, 61, "")
    IN  IF s6.ok /\ s6.vals[3] <= DaysInMonth(s6.vals[1], s6.vals[2])
        THEN [ok |-> TRUE, val |-> s6.vals]
        ELSE [ok |-> FALSE, val |-> <<>>]

(***************************************************************************)
(* checksum: md5 over timestamp + StationName + contestnr + call.  The     *)
(* digest is modelled as an ideal (collision-free) hash: the key it yields *)
(* is the tagged concatenation, distinct from every explicit ID.  A field  *)
(* missing from data raises KeyError.                                      *)
(***************************************************************************)
md5(hval) == <<"md5">> \o hval

KeyError == <<"KeyError">>

\* variants of checksum: exchange1 joins the digest; call is left out of
\* it; only call is digested
checksum_with_exchange(data) ==
    IF {"timestamp", "StationName", "contestnr", "call"} \subseteq DOMAIN data
    THEN md5(data["timestamp"] \o data["StationName"] \o data["contestnr"] \o data["call"]
                 \o (IF "exchange1" \in DOMAIN data THEN data["exchange1"] ELSE <<>>))
    ELSE KeyError

checksum_without_call(data) ==
    IF {"timestamp", "StationName", "contestnr"} \subseteq DOMAIN data
    THEN md5(data["timestamp"] \o data["StationName"] \o data["contestnr"])
    ELSE KeyError

checksum_of_call(data) ==
    IF {"call"} \subseteq DOMAIN data THEN md5(data["call"]) ELSE KeyError

checksum(data) ==
    IF {"timestamp", "StationName", "contestnr", "call"} \subseteq DOMAIN data
    THEN md5(data["timestamp"] \o data["StationName"] \o data["contestnr"] \o data["call"])
    ELSE KeyError

(***************************************************************************)
(* constants.Bands and constants.Modes                                     *)
(***************************************************************************)
BANDS_LIST == << <<"N", "/", "A">>, <<"1", ".", "8">>, <<"3", ".", "5">>, <<"7">>,
                 <<"1", "4">>, <<"2", "1">>, <<"2", "8">>, <<"5", "0">>,
                 <<"1", "4", "4">>, <<"4", "2", "0">> >>

\* variant of get_band_number: an unknown band is band 0, as an unknown
\* mode is mode 0
get_band_number_or_zero(band_name) ==
    IF \E i \in 1..Len(BANDS_LIST) : BANDS_LIST[i] = band_name
    THEN (CHOOSE i \in 1..Len(BANDS_LIST) : BANDS_LIST[i] = band_name) - 1
    ELSE 0

\* Bands.BANDS.get(band_name): the index in BANDS_LIST, or None
get_band_number(band_name) ==
    IF \E i \in 1..Len(BANDS_LIST) : BANDS_LIST[i] = band_name
    THEN (CHOOSE i \in 1..Len(BANDS_LIST) : BANDS_LIST[i] = band_name) - 1
    ELSE NoneNum

MODES_LIST == << <<"N", "/", "A">>, <<"C", "W">>, <<"A", "M">>, <<"F", "M">>,
                 <<"L", "S", "B">>, <<"U", "S", "B">>, <<"S", "S", "B">>,
                 <<"R", "T", "T", "Y">>, <<"P", "S", "K">>,
                 <<"P", "S", "K", "3", "1">>, <<"P", "S", "K", "6", "3">>,
                 <<"F", "T", "8">>, <<"F", "T", "4">>, <<"M", "F", "S", "K">>,
                 <<"N", "o", "M", "o", "d", "e">>, <<"N", "o", "n", "e">> >>

\* Modes.get_mode_number: the index in MODES_LIST, 0 for an unknown mode
get_mode_number(mode_name) ==
    IF \E i \in 1..Len(MODES_LIST) : MODES_LIST[i] = mode_name
    THEN (CHOOSE i \in 1..Len(MODES_LIST) : MODES_LIST[i] = mode_name) - 1
    ELSE 0

(***************************************************************************)
(* The store and the worker's objects.  A world w is the record of         *)
(*   qso_log, operator, station, radio_info : the tables (sets of rows)    *)
(*   operators, stations : the name -> id dicts of Operators and Stations  *)
(*   logged : the warning the current message produced ("" for none)       *)
(*   raised : an exception escaped the handler                             *)
(***************************************************************************)
Warn(w, what) == [w EXCEPT !.logged = what]

Raise(w, what) == [w EXCEPT !.raised = what]

\* cursor.lastrowid after an insert into a table with integer row ids
LastRowId(table) ==
    IF table = {} THEN 1
    ELSE 1 + (CHOOSE m \in {r.id : r \in table} : \A r \in table : r.id <= m)

\* variant of lookup_operator_id: self.operators is not consulted, a row is
\* inserted at every call
lookup_operator_id_uncached(w, operator) ==
    LET oid == LastRowId(w.operator)
    IN  [w EXCEPT !.operator = @ \cup {[id |-> oid, name |-> operator]},
                  !.operators = Put(@, operator, oid)]

\* Operators.lookup_operator_id: the world after the call; the id returned
\* is w.operators[operator] of that world
lookup_operator_id(w, operator) ==
    IF operator \in DOMAIN w.operators THEN w
    ELSE IF \E r \in w.operator : r.name = operator THEN Raise(w, "IntegrityError")
    ELSE LET oid == LastRowId(w.operator)
         IN  [w EXCEPT !.operator = @ \cup {[id |-> oid, name |-> operator]},
                       !.operators = Put(@, operator, oid)]

\* Stations.lookup_station_id
lookup_station_id(w, station) ==
    IF station \in DOMAIN w.stations THEN w
    ELSE IF \E r \in w.station : r.name = station THEN Raise(w, "IntegrityError")
    ELSE LET sid == LastRowId(w.station)
         IN  [w EXCEPT !.station = @ \cup {[id |-> sid, name |-> station]},
                       !.stations = Put(@, station, sid)]

\* dataaccess.record_contact_combined: a contact whose band or mode maps to
\* no known band/mode is logged and not persisted; otherwise the row with
\* this qso_id is inserted, or replaced when it exists
record_contact_combined(w0, timestamp, mycall, band, mode, operator, station, rx_freq, tx_freq, callsign, rst_sent, rst_recv, exchange, section, comment, qso_id, state) ==
    LET band_id == get_band_number(band)
        mode_id == get_mode_number(mode)
    IN  IF band_id = NoneNum \/ mode_id = NoneNum THEN Warn(w0, "cannot record contact")
        ELSE LET w1 == lookup_operator_id(w0, operator)
                 w2 == IF w1.raised # "" THEN w1 ELSE lookup_station_id(w1, station)
             IN  IF w2.raised # "" THEN w2
                 ELSE LET row == [qso_id |-> qso_id, timestamp |-> timestamp,
                                  mycall |-> mycall, band_id |-> band_id,
                                  mode_id |-> mode_id,
                                  operator_id |-> w2.operators[operator],
                                  station_id |-> w2.stations[station],
                                  rx_freq |-> rx_freq, tx_freq |-> tx_freq,
                                  callsign |-> callsign, rst_sent |-> rst_sent,
                                  rst_recv |-> rst_recv, exchange |-> exchange,
                                  section |-> section, comment |-> comment,
                                  state |-> state]
                      IN  [w2 EXCEPT !.qso_log =
                               {r \in @ : r.qso_id # qso_id} \cup {row}]

\* dataaccess.delete_contact_by_qso_id
delete_contact_by_qso_id(w, qso_id) ==
    [w EXCEPT !.qso_log = {r \in @ : r.qso_id # qso_id}]

\* dataaccess.record_radio_info: insert or fully overwrite the row of
\* (station_name, radio_nr)
record_radio_info(w, station_name, radio_nr, freq, tx_freq, mode, op_call, is_running, is_transmitting, is_connected, is_split, is_active, radio_name, antenna, last_update) ==
    LET row == [station_name |-> station_name, radio_nr |-> radio_nr,
                freq |-> freq, tx_freq |-> tx_freq, mode |-> mode,
                op_call |-> op_call, is_running |-> is_running,
                is_transmitting |-> is_transmitting,
                is_connected |-> is_connected, is_split |-> is_split,
                is_active |-> is_active, radio_name |-> radio_name,
                antenna |-> antenna, last_update |-> last_update]
    IN  [w EXCEPT !.radio_info =
             {r \in @ : ~(r.station_name = station_name /\ r.radio_nr = radio_nr)}
                 \cup {row}]

\* dataaccess.clear_radio_info
clear_radio_info(w) == [w EXCEPT !.radio_info = {}]

(***************************************************************************)
(* The message handlers of collector.py                                    *)
(***************************************************************************)
RequiredFields == <<"timestamp", "StationName", "contestnr", "call">>

\* variant of the required-field test: call is not looked for
MissingButCall(data) ==
    {i \in 1..Len(RequiredFields) :
         RequiredFields[i] # "call" /\ RequiredFields[i] \notin DOMAIN data}

\* [f for f in required_fields if f not in data]
Missing(data) == {i \in 1..Len(RequiredFields) : RequiredFields[i] \notin DOMAIN data}

_process_contact(w, data, mults) ==
    LET id0       == Get(data, "ID", <<>>)
        qso_id    == IF Len(id0) = 0 THEN checksum(data) ELSE StripHyphens(id0)
        qso_timestamp == Get(data, "timestamp", None)
        timestamp == convert_timestamp(qso_timestamp)
        rx_freq_str == Get(data, "rxfreq", None)
        tx_freq_str == Get(data, "txfreq", None)
        rx        == ParseInt(rx_freq_str)
        tx        == ParseInt(tx_freq_str)
        rx_freq   == rx.val * 10
        tx_freq   == tx.val * 10
        mycall    == Upper(Get(data, "mycall", <<>>))
        band      == Get(data, "band", None)
        mode      == Upper(Get(data, "mode", <<>>))
        operator  == Upper(Get(data, "operator", <<>>))
        name0     == Upper(Get(data, "StationName", <<>>))
        station_name == IF name0 = <<>> THEN Get(data, "NetBiosName", <<>>) ELSE name0
        station   == Upper(station_name)
        callsign  == Upper(Get(data, "call", <<>>))
        rst_sent  == Get(data, "snt", None)
        rst_recv  == Get(data, "rcv", None)
        exchange  == Upper(Get(data, "exchange1", <<>>))
        section   == Upper(Get(data, "section", <<>>))
        comment   == Get(data, "comment", <<>>)
        state     == IF mults = "STATES" THEN section ELSE <<>>
    IN  IF Len(id0) = 0 /\ Missing(data) # {}
        THEN Warn(w, "contact missing required fields for checksum")
        ELSE IF qso_id = KeyError THEN Raise(w, "KeyError")
        ELSE IF qso_timestamp = None \/ qso_timestamp = <<>>
        THEN Warn(w, "contact missing timestamp")
        ELSE IF ~timestamp.ok THEN Warn(w, "contact invalid timestamp format")
        ELSE IF rx_freq_str = None THEN Warn(w, "contact missing rxfreq")
        ELSE IF tx_freq_str = None THEN Warn(w, "contact missing txfreq")
        ELSE IF ~rx.ok THEN Warn(w, "contact invalid rxfreq")
        ELSE IF ~tx.ok THEN Warn(w, "contact invalid txfreq")
        ELSE IF rx_freq < 0 THEN Warn(w, "contact negative rxfreq")
        ELSE IF tx_freq < 0 THEN Warn(w, "contact negative txfreq")
        ELSE record_contact_combined(w, timestamp.val, mycall, band, mode, operator,
                                     station, rx_freq, tx_freq, callsign, rst_sent,
                                     rst_recv, exchange, section, comment, qso_id, state)

\* variant of the numeric fields of _process_radio_info: the value after a
\* ValueError is 0 for every field
IntOrZero(data, key, default) ==
    IF key \in DOMAIN data
    THEN (IF ParseInt(data[key]).ok THEN ParseInt(data[key]).val ELSE 0)
    ELSE default

\* int(data.get(key, default)) with the ValueError default of _process_radio_info
IntOr(data, key, default) ==
    IF key \in DOMAIN data
    THEN (IF ParseInt(data[key]).ok THEN ParseInt(data[key]).val ELSE default)
    ELSE default

TrueToken == <<"T", "r", "u", "e">>

Flag(data, key) == IF Get(data, key, <<>>) = TrueToken THEN 1 ELSE 0

\* variant of _process_radio_info: a frequency, mode or flag the message
\* does not carry is taken from the row the store holds for the key
_process_radio_info_merging(w, data, now) ==
    LET name0        == Upper(Get(data, "StationName", <<>>))
        station_name == IF name0 = <<>> THEN Upper(Get(data, "NetBiosName", <<>>)) ELSE name0
        radio_nr     == IntOr(data, "RadioNr", 1)
        old          == {r \in w.radio_info :
                             r.station_name = station_name /\ r.radio_nr = radio_nr}
        kept(field, default) == IF old = {} THEN default ELSE (CHOOSE r \in old : TRUE)[field]
        freq         == IF "Freq" \in DOMAIN data THEN IntOr(data, "Freq", 0) * 10
                        ELSE kept("freq", 0)
        tx_freq      == IF "TXFreq" \in DOMAIN data THEN IntOr(data, "TXFreq", 0) * 10
                        ELSE kept("tx_freq", 0)
        antenna      == IntOr(data, "Antenna", 0)
        mode         == IF "Mode" \in DOMAIN data THEN Upper(data["Mode"]) ELSE kept("mode", <<>>)
        op_call      == Upper(Get(data, "OpCall", <<>>))
        radio_name   == Get(data, "RadioName", <<>>)
        active_radio_nr == IntOr(data, "ActiveRadioNr", 0)
        is_active    == IF radio_nr = active_radio_nr THEN 1 ELSE 0
        is_running   == IF "IsRunning" \in DOMAIN data THEN Flag(data, "IsRunning")
                        ELSE kept("is_running", 0)
    IN  record_radio_info(w, station_name, radio_nr, freq, tx_freq, mode, op_call,
                          is_running, Flag(data, "IsTransmitting"),
                          Flag(data, "IsConnected"), Flag(data, "IsSplit"),
                          is_active, radio_name, antenna, now)

\* variant of _process_radio_info: the station of the message is looked up
\* in the station registry, and registered there when it is new
_process_radio_info_registering(w, data, now) ==
    LET name0        == Upper(Get(data, "StationName", <<>>))
        station_name == IF name0 = <<>> THEN Upper(Get(data, "NetBiosName", <<>>)) ELSE name0
        radio_nr     == IntOr(data, "RadioNr", 1)
        freq         == IntOr(data, "Freq", 0) * 10
        tx_freq      == IntOr(data, "TXFreq", 0) * 10
        antenna      == IntOr(data, "Antenna", 0)
        mode         == Upper(Get(data, "Mode", <<>>))
        op_call      == Upper(Get(data, "OpCall", <<>>))
        radio_name   == Get(data, "RadioName", <<>>)
        active_radio_nr == IntOr(data, "ActiveRadioNr", 0)
        is_active    == IF radio_nr = active_radio_nr THEN 1 ELSE 0
        numeric      == {"RadioNr", "Freq", "TXFreq", "Antenna"}
        w0           == lookup_station_id(w, station_name)
        w1           == IF \E k \in numeric : k \in DOMAIN data /\ ~ParseInt(data[k]).ok
                        THEN Warn(w0, "RadioInfo invalid number, using default")
                        ELSE w0
    IN  record_radio_info(w1, station_name, radio_nr, freq, tx_freq, mode, op_call,
                          Flag(data, "IsRunning"), Flag(data, "IsTransmitting"),
                          Flag(data, "IsConnected"), Flag(data, "IsSplit"),
                          is_active, radio_name, antenna, now)

_process_radio_info(w, data, now) ==
    LET name0        == Upper(Get(data, "StationName", <<>>))
        station_name == IF name0 = <<>> THEN Upper(Get(data, "NetBiosName", <<>>)) ELSE name0
        radio_nr     == IntOr(data, "RadioNr", 1)
        freq         == IntOr(data, "Freq", 0) * 10
        tx_freq      == IntOr(data, "TXFreq", 0) * 10
        antenna      == IntOr(data, "Antenna", 0)
        mode         == Upper(Get(data, "Mode", <<>>))
        op_call      == Upper(Get(data, "OpCall", <<>>))
        radio_name   == Get(data, "RadioName", <<>>)
        active_radio_nr == IntOr(data, "ActiveRadioNr", 0)
        is_active    == IF radio_nr = active_radio_nr THEN 1 ELSE 0
        numeric      == {"RadioNr", "Freq", "TXFreq", "Antenna"}
        w1           == IF \E k \in numeric : k \in DOMAIN data /\ ~ParseInt(data[k]).ok
                        THEN Warn(w, "RadioInfo invalid number, using default")
                        ELSE w
    IN  record_radio_info(w1, station_name, radio_nr, freq, tx_freq, mode, op_call,
                          Flag(data, "IsRunning"), Flag(data, "IsTransmitting"),
                          Flag(data, "IsConnected"), Flag(data, "IsSplit"),
                          is_active, radio_name, antenna, now)

\* variant of _process_contact_delete: the ID is used as received
_process_contact_delete_raw_id(w, data) ==
    LET id0    == Get(data, "ID", <<>>)
        qso_id == IF Len(id0) = 0 THEN checksum(data) ELSE id0
    IN  IF Len(id0) = 0 /\ Missing(data) # {}
        THEN Warn(w, "contactdelete missing required fields")
        ELSE IF qso_id = KeyError THEN Raise(w, "KeyError")
        ELSE delete_contact_by_qso_id(w, qso_id)

\* variant of _process_contact_delete: the timestamp is validated as
\* _process_contact validates it
_process_contact_delete_validating(w, data) ==
    LET id0    == Get(data, "ID", <<>>)
        qso_id == IF Len(id0) = 0 THEN checksum(data) ELSE StripHyphens(id0)
        qso_timestamp == Get(data, "timestamp", None)
    IN  IF Len(id0) = 0 /\ Missing(data) # {}
        THEN Warn(w, "contactdelete missing required fields")
        ELSE IF qso_id = KeyError THEN Raise(w, "KeyError")
        ELSE IF qso_timestamp = None \/ qso_timestamp = <<>>
        THEN Warn(w, "contact missing timestamp")
        ELSE IF ~convert_timestamp(qso_timestamp).ok
        THEN Warn(w, "contact invalid timestamp format")
        ELSE delete_contact_by_qso_id(w, qso_id)

_process_contact_delete(w, data) ==
    LET id0    == Get(data, "ID", <<>>)
        qso_id == IF Len(id0) = 0 THEN checksum(data) ELSE StripHyphens(id0)
    IN  IF Len(id0) = 0 /\ Missing(data) # {}
        THEN Warn(w, "contactdelete missing required fields")
        ELSE IF qso_id = KeyError THEN Raise(w, "KeyError")
        ELSE delete_contact_by_qso_id(w, qso_id)

\* variant of the dispatch of process_message: contactreplace is not a
\* known message type
Dispatch_contactinfo_only(w, data, mults, now) ==
    LET message_type == Get(data, MessageTypeKey, "")
    IN  IF message_type = "contactinfo"
        THEN _process_contact(w, data, mults)
        ELSE IF message_type = "RadioInfo" THEN _process_radio_info(w, data, now)
        ELSE IF message_type = "contactdelete" THEN _process_contact_delete(w, data)
        ELSE IF message_type = "dynamicresults" THEN w
        ELSE Warn(w, "unknown message type")

\* variant of the dispatch of process_message: a message of any other type
\* is taken for a RadioInfo message
Dispatch_default_radio(w, data, mults, now) ==
    LET message_type == Get(data, MessageTypeKey, "")
    IN  IF message_type \in {"contactinfo", "contactreplace"}
        THEN _process_contact(w, data, mults)
        ELSE IF message_type = "contactdelete" THEN _process_contact_delete(w, data)
        ELSE IF message_type = "dynamicresults" THEN w
        ELSE _process_radio_info(w, data, now)

\* the dispatch of process_message on the parsed mapping
Dispatch(w, data, mults, now) ==
    LET message_type == Get(data, MessageTypeKey, "")
    IN  IF message_type \in {"contactinfo", "contactreplace"}
        THEN _process_contact(w, data, mults)
        ELSE IF message_type = "RadioInfo" THEN _process_radio_info(w, data, now)
        ELSE IF message_type = "contactdelete" THEN _process_contact_delete(w, data)
        ELSE IF message_type = "dynamicresults" THEN w
        ELSE Warn(w, "unknown message type")

\* process_message: the parser object and the world after the call.  calls
\* are the handler calls of parser.Parse on compress_message(message).
process_message(parser, w, calls, mults, now) ==
    LET p == parse(parser, calls)
    IN  [parser |-> p.self,
         w |-> IF p.raised THEN Warn(w, "Malformed XML")
               ELSE Dispatch(w, p.self.result, mults, now)]

(***************************************************************************)
(* The datagrams the network delivers.  A message is described by its root *)
(* element, its leaf fields in order and its shape on the wire; Datagram   *)
(* renders it as the sequence of lexical units.                            *)
(***************************************************************************)
T1 == <<"2", "0", "2", "4", "-", "0", "6", "-", "2", "2", " ", "1", "8", ":", "3", "0", ":", "4", "5">>

T2 == <<"2", "0", "2", "4", "-", "0", "6", "-", "2", "2", " ", "1", "8", ":", "3", "0", ":", "4", "6">>

TBad == <<"2", "2", "/", "0", "6", "/", "2", "0", "2", "4", " ", "1", "8", ":", "3", "0", ":", "4", "5">>

F(name, value) == <<name, value>>

\* the fields of a contact message; a None value leaves the field out
RECURSIVE Present(_)
Present(fields) ==
    IF fields = <<>> THEN <<>>
    ELSE IF Head(fields)[2] = None THEN Present(Tail(fields))
    ELSE <<Head(fields)>> \o Present(Tail(fields))

Msg(root, fields, shape) == [root |-> root, fields |-> Present(fields), shape |-> shape]

RECURSIVE Leaves(_, _)
Leaves(fields, indent) ==
    IF fields = <<>> THEN <<>>
    ELSE LET f == Head(fields)
         IN  indent \o <<Open(f[1])>> \o Chars(f[2]) \o <<Close(f[1])>>
                 \o Leaves(Tail(fields), indent)

Indent == <<Chr("\n"), Chr(" "), Chr(" ")>>

Compact(m) == <<Open(m.root)>> \o Leaves(m.fields, <<>>) \o <<Close(m.root)>>

Datagram(m) ==
    LET d == Compact(m)
    IN  CASE m.shape = "compact"  -> d
          \* pretty-printed as the logging program sends it
          [] m.shape = "pretty"   ->
                 <<Open(m.root)>> \o Leaves(m.fields, Indent) \o <<Chr("\n"), Close(m.root)>>
          \* the first leaf is inside an element of its own
          [] m.shape = "nested"   ->
                 <<Open(m.root), Open("group")>> \o Leaves(SubSeq(m.fields, 1, 1), <<>>)
                     \o <<Close("group")>> \o Leaves(Tail(m.fields), <<>>) \o <<Close(m.root)>>
          \* the closing tag of the root is missing
          [] m.shape = "noclose"  -> SubSeq(d, 1, Len(d) - 1)
          \* cut inside the closing tag of the last leaf
          [] m.shape = "cut"      -> SubSeq(d, 1, Len(d) - 2)
          \* the first leaf is closed by another name
          [] m.shape = "mismatch" ->
                 [i \in 1..Len(d) |->
                     IF d[i].k = "close" /\ \A j \in 1..(i - 1) : d[j].k # "close"
                     THEN Close("zz") ELSE d[i]]
          \* a NUL byte inside the first leaf
          [] m.shape = "nul"      -> SubSeq(d, 1, 2) \o <<Bad>> \o SubSeq(d, 3, Len(d))
          \* binary garbage
          [] m.shape = "garbage"  -> <<Bad, Bad, Bad>>
          \* text that is no XML
          [] m.shape = "text"     -> Chars(<<"n", "o", " ", "x", "m", "l">>)

WellFormedShapes == {"compact", "pretty"}

MalformedShapes == {"noclose", "cut", "mismatch", "nul", "garbage", "text"}

\* a contact message: identity, timestamp, frequencies, fallback fields,
\* band and the fields that tell two versions of one contact apart
Contact(root, id, ts, rx, tx, st, cn, call, band, exch, shape) ==
    Msg(root, <<F("timestamp", ts), F("call", call), F("band", band),
                F("mode", <<"c", "w">>), F("rxfreq", rx), F("txfreq", tx),
                F("operator", <<"o", "p">> \o (IF exch = None THEN <<>> ELSE exch)),
                F("StationName", st), F("contestnr", cn),
                F("exchange1", exch), F("section", <<"c", "t">>),
                F("ID", id)>>, shape)

Delete(id, ts, st, cn, call) ==
    Msg("contactdelete", <<F("timestamp", ts), F("StationName", st),
                           F("contestnr", cn), F("call", call), F("ID", id)>>, "compact")

ID1 == <<"a", "-", "b">>

ID2 == <<"a", "b">>

ID3 == <<"z">>

S1 == <<"s", "1">>

S11 == <<"s", "1", "1">>

N12 == <<"1", "2">>

N2 == <<"2">>

K1 == <<"k", "1">>

B14 == <<"1", "4">>

Five == <<"5">>

\* valid contacts: with and without ID, two versions of each, fallback
\* tuples that differ in one field and tuples whose concatenations agree
UpsertMessages ==
    { Contact("contactinfo", id, T1, Five, Five, S1, N12, K1, B14, e, "compact") :
          id \in {None, ID1, ID2}, e \in {<<"2", "a">>, <<"3", "a">>} }
    \cup { Contact("contactinfo", None, T1, Five, Five, S11, N2, K1, B14, <<"2", "a">>, "compact") }
    \cup { Contact("contactreplace", id, T1, Five, Five, S1, N12, K1, B14, <<"3", "a">>, "pretty") :
          id \in {None, ID1} }
    \cup { Contact("contactinfo", id, T2, Five, Five, S1, N12, K1, B14, <<"2", "a">>, "compact") :
          id \in {None, ID3} }
    \cup { Contact("contactinfo", None, T1, Five, Five, S1, N2, K1, B14, <<"2", "a">>, "compact") }

\* contacts that differ from a valid one in the validated field
ValidationMessages ==
    { Contact("contactinfo", ID1, ts, Five, Five, S1, N12, K1, B14, None, "compact") :
          ts \in {None, TBad} }
    \cup { Contact("contactinfo", ID3, T1, rx, Five, S1, N12, K1, B14, None, "compact") :
          rx \in {None, <<"0">>, <<"-", "1">>, <<"1", ".", "5">>, <<"x">>} }
    \cup { Contact("contactinfo", ID3, T1, Five, tx, S1, N12, K1, B14, None, "compact") :
          tx \in {None, <<"-", "1">>, <<"x">>} }
    \cup { Contact("contactinfo", None, T1, Five, Five, f[1], f[2], f[3], B14, None, "compact") :
          f \in {<<None, N12, K1>>, <<S1, None, K1>>, <<S1, N12, None>>} }
    \cup { Contact("contactinfo", None, None, Five, Five, S1, N12, K1, B14, None, "compact") }
    \cup { Contact("contactinfo", ID3, T1, Five, Five, S1, N12, K1, band, None, "compact") :
          band \in {None, <<"9", "9">>} }

\* the contactinfo scenario of the specification, and the same with a band
ScenarioFields ==
    <<F("timestamp", T1), F("rxfreq", <<"1", "4", "0", "2", "5", "0", "0">>),
      F("txfreq", <<"1", "4", "0", "2", "5", "0", "0">>), F("call", <<"K", "1", "A", "B", "C">>),
      F("StationName", <<"S", "1">>), F("contestnr", <<"1">>),
      F("ID", <<"a", "b", "c", "-", "d", "e", "f", "-", "1", "2", "3">>)>>

Scenario == Msg("contactinfo", ScenarioFields, "compact")

ScenarioWithBand == Msg("contactinfo", ScenarioFields \o <<F("band", B14)>>, "compact")

DeleteMessages ==
    { Delete(id, None, None, None, None) : id \in {ID1, ID2, ID3} }
    \cup { Delete(None, T1, f[1], f[2], K1) : f \in {<<S1, N12>>, <<S11, N2>>} }
    \cup { Delete(ID3, T1, S1, N12, K1), Delete(None, T1, S1, N12, None),
           Delete(None, None, S1, N12, K1),
           Msg("contactdelete", <<F("someotherfield", <<"v">>)>>, "compact"),
           Delete(ID1, TBad, S1, N12, K1), Delete(None, TBad, S1, N12, K1),
           Msg("contactdelete", <<F("ID", ID1), F("rxfreq", <<"x">>),
                                  F("txfreq", <<"-", "1">>)>>, "pretty") }

MalformedMessages ==
    { Contact("contactinfo", ID1, T1, Five, Five, S1, N12, K1, B14, <<"2", "a">>, shape) :
          shape \in MalformedShapes }
    \cup { [Delete(ID1, None, None, None, None) EXCEPT !.shape = "noclose"] }

RadioMessages ==
    { Msg("RadioInfo", <<F("StationName", S1), F("RadioNr", <<"2">>),
                         F("Freq", freq), F("ActiveRadioNr", <<"2">>)>>, "compact") :
          freq \in {Five, <<"i", "n", "v">>} }
    \cup { Msg("RadioInfo", <<F("NetBiosName", <<"p", "c">>), F("IsRunning", TrueToken)>>, "pretty") }

OtherMessages ==
    { Msg("dynamicresults", <<F("score", Five)>>, "compact"),
      Msg("AppInfo", <<F("call", K1)>>, "compact"),
      Msg("contactinfo", <<>>, "compact") }

\* a contact whose mode is none of Modes.MODES_LIST
ModeMessages ==
    { Msg("contactinfo", <<F("timestamp", T1), F("call", K1), F("band", B14),
                           F("mode", <<"x", "x">>), F("rxfreq", Five), F("txfreq", Five),
                           F("ID", ID3)>>, "compact") }

\* RadioInfo datagrams: every field; the key alone; numeric fields that are
\* no numbers; NetBiosName for StationName; neither of the two
RadioFull ==
    Msg("RadioInfo", <<F("StationName", S1), F("RadioNr", <<"2">>), F("Freq", Five),
                       F("TXFreq", <<"3">>), F("Mode", <<"c", "w">>), F("OpCall", K1),
                       F("IsRunning", TrueToken), F("IsTransmitting", TrueToken),
                       F("IsConnected", TrueToken), F("IsSplit", TrueToken),
                       F("RadioName", <<"r">>), F("Antenna", <<"3">>),
                       F("ActiveRadioNr", <<"2">>)>>, "pretty")

RadioKeyOnly == Msg("RadioInfo", <<F("StationName", <<"S", "1">>), F("RadioNr", <<"2">>)>>, "compact")

RadioNoName == Msg("RadioInfo", <<F("Freq", Five)>>, "compact")

RadioInfoMessages ==
    { RadioFull, RadioKeyOnly, RadioNoName,
      Msg("RadioInfo", <<F("StationName", S1), F("Freq", <<"i", "n", "v">>)>>, "compact"),
      Msg("RadioInfo", <<F("StationName", S1), F("RadioNr", <<"x">>), F("Freq", Five),
                         F("ActiveRadioNr", <<"1">>)>>, "compact"),
      Msg("RadioInfo", <<F("StationName", S1), F("RadioNr", <<"3">>), F("TXFreq", <<"x">>),
                         F("Antenna", <<"x">>), F("ActiveRadioNr", <<"x">>)>>, "compact"),
      Msg("RadioInfo", <<F("NetBiosName", <<"p", "c">>), F("IsRunning", <<"t", "r", "u", "e">>),
                         F("TXFreq", Five)>>, "compact"),
      Msg("RadioInfo", <<F("StationName", S1), F("RadioNr", <<"0">>), F("Freq", Five)>>, "compact"),
      Msg("RadioInfo", <<F("StationName", S1), F("RadioNr", <<"0">>),
                         F("ActiveRadioNr", <<"x">>)>>, "compact") }

\* payloads for the parser: a leaf nested one level deeper, a root without
\* child elements, text with an entity reference and with a line break, a
\* leaf without text, an undefined entity, and a well-formed and a
\* mismatched contact
PayloadGood == Msg("contactinfo", <<F("call", <<"w", "1">>), F("band", B14)>>, "compact")

PayloadMismatch == Msg("contactinfo", <<F("call", K1), F("mode", <<"c", "w">>)>>, "mismatch")

ParserMessages ==
    { Msg("contactinfo", <<F("call", K1), F("band", B14)>>, "nested"),
      Msg("RadioInfo", <<>>, "compact"),
      Msg("contactinfo", <<F("comment", <<"a", AmpEntity, "b">>), F("call", K1)>>, "compact"),
      Msg("contactinfo", <<F("comment", <<"a", "\n", "\n", "b">>), F("call", K1)>>, "compact"),
      Msg("contactinfo", <<F("call", K1), F("notes", <<>>)>>, "pretty"),
      PayloadGood, PayloadMismatch,
      Msg("contactinfo", <<F("call", <<"k", UndefinedEntity>>)>>, "compact"),
      Msg("AppInfo", <<F("call", K1)>>, "pretty"),
      [PayloadGood EXCEPT !.shape = "noclose"] }

Messages ==
    UpsertMessages \cup ValidationMessages \cup {Scenario, ScenarioWithBand} \cup ModeMessages
        \cup DeleteMessages \cup MalformedMessages \cup RadioMessages \cup OtherMessages

\* for each datagram, the handler calls parser.Parse makes on the
\* normalised datagram
Wire == [m \in Messages \cup RadioInfoMessages \cup ParserMessages |-> Parse(compress_message(Datagram(m)))]

\* int(time.time()) when a RadioInfo message is processed
Times == {100, 101}

\* the clock is read by _process_radio_info only
IsRadioInfo(m) == m.root = "RadioInfo"

(***************************************************************************)
(* The worker: message_processor after its start-up (tables created, radio *)
(* status cleared, Operators, Stations and the parser constructed), taking *)
(* one datagram after the other through process_message.                   *)
(***************************************************************************)
\* the number of datagrams a run of the model processes
MaxMsgs == 2

\* cm_in is a byte sequence handed to compress_message and cm_out what it
\* returned for it (the unit under test of the compress specification);
\* ck_in are two field mappings handed to checksum and ck_out the keys it
\* returned for them (the unit under test of the checksum specification)
VARIABLES qso_log, operator, station, radio_info, operators, stations,
          parser, logged, raised, last, nmsgs, MULTS, ck_in, ck_out, cm_in, cm_out

\* the headless renderer: last_qso_timestamp is the local of main that
\* create_images is given and returns, images the contact log the image
\* files of the data-dependent charts were last drawn from, cycles the
\* number of create_images calls made, SKIP_TIMESTAMP_CHECK the setting
VARIABLES last_qso_timestamp, images, cycles, SKIP_TIMESTAMP_CHECK

\* the two processes of main: mpc and wpc are the positions of the
\* orchestrator and of the worker process, q the multiprocessing.Queue,
\* event the multiprocessing.Event, run the global of the orchestrator's
\* process and worker_run the copy of it in the worker's process,
\* thread_run the worker's local; received and processed record the
\* datagrams in the order they were put on q and taken from it
VARIABLES mpc, wpc, q, event, run, worker_run, thread_run, received, processed

system == <<mpc, wpc, q, event, run, worker_run, thread_run, received, processed>>

vars == <<nmsgs, last, qso_log, operator, station, radio_info, operators, stations,
          parser, logged, raised, MULTS, ck_in, ck_out, cm_in, cm_out,
          last_qso_timestamp, images, cycles, SKIP_TIMESTAMP_CHECK, system>>

NoMsg == Msg("", <<>>, "none")

World == [qso_log |-> qso_log, operator |-> operator, station |-> station,
          radio_info |-> radio_info, operators |-> operators,
          stations |-> stations, logged |-> "", raised |-> ""]

\* message_processor up to the loop: an empty store, the radio status
\* cleared, the dicts loaded from the (empty) tables, a new parser
Started ==
    /\ qso_log = {}
    /\ operator = {}
    /\ station = {}
    /\ radio_info = {}
    /\ operators = EmptyDict
    /\ stations = EmptyDict
    /\ parser = NewParser
    /\ logged = ""
    /\ raised = ""
    /\ last = NoMsg
    /\ nmsgs = 0

\* the worker on its own, in its loop: no orchestrator, no queue
WorkerAlone ==
    /\ mpc = "none"
    /\ wpc = "get"
    /\ q = <<>>
    /\ event = FALSE
    /\ run = TRUE
    /\ worker_run = TRUE
    /\ thread_run = TRUE
    /\ received = <<>>
    /\ processed = <<>>

\* compress_message has not been called
NotCompressed == [done |-> FALSE, msg |-> <<>>]

Init ==
    /\ Started
    /\ WorkerAlone
    /\ MULTS \in {"STATES", "SECTIONS"}
    /\ ck_in = <<>>
    /\ ck_out = <<>>
    /\ cm_in = <<>>
    /\ cm_out = NotCompressed
    /\ last_qso_timestamp = <<>>
    /\ images = {}
    /\ cycles = 0
    /\ SKIP_TIMESTAMP_CHECK = FALSE

\* one iteration of the worker loop: q.get() and process_message
Iteration(m, now) ==
    /\ raised = ""
    /\ nmsgs < MaxMsgs
    /\ \E r \in {process_message(parser, World, Wire[m], MULTS, now)} :
           /\ parser' = r.parser
           /\ qso_log' = r.w.qso_log
           /\ operator' = r.w.operator
           /\ station' = r.w.station
           /\ radio_info' = r.w.radio_info
           /\ operators' = r.w.operators
           /\ stations' = r.w.stations
           /\ logged' = r.w.logged
           /\ raised' = r.w.raised
    /\ last' = m
    /\ nmsgs' = nmsgs + 1
    /\ UNCHANGED <<MULTS, ck_in, ck_out, cm_in, cm_out,
                   last_qso_timestamp, images, cycles, SKIP_TIMESTAMP_CHECK>>

ProcessMessage(m, now) == Iteration(m, now) /\ UNCHANGED system

Next ==
    \E m \in Messages :
        \E now \in (IF IsRadioInfo(m) THEN Times ELSE {0}) : ProcessMessage(m, now)

Spec == Init /\ [][Next]_vars

\* the worker taking RadioInfo datagrams, the datagrams taken being recorded
ProcessRadioInfo(m, now) ==
    /\ Iteration(m, now)
    /\ processed' = Append(processed, m)
    /\ UNCHANGED <<mpc, wpc, q, event, run, worker_run, thread_run, received>>

NextRadio == \E m \in RadioInfoMessages : \E now \in Times : ProcessRadioInfo(m, now)

SpecRadio == Init /\ [][NextRadio]_vars

\* the loop body on a payload chosen for the parser
ProcessPayload(m) ==
    /\ Iteration(m, 0)
    /\ processed' = Append(processed, m)
    /\ UNCHANGED <<mpc, wpc, q, event, run, worker_run, thread_run, received>>

NextParser == \E m \in ParserMessages : ProcessPayload(m)

SpecParser == Init /\ [][NextParser]_vars

(***************************************************************************)
(* checksum on its own: two field mappings drawn from the fallback fields  *)
(* of contact messages, and the keys checksum returns for them.            *)
(***************************************************************************)
CkTimestamps == {T1, T2}

CkStations == {S1, S11, <<"s">>}

CkContests == {N12, N2, <<"1">>}

CkCalls == {K1, <<"k", "2">>}

CkData ==
    { [timestamp |-> ts, StationName |-> st, contestnr |-> cn, call |-> c] :
          ts \in CkTimestamps, st \in CkStations, cn \in CkContests, c \in CkCalls }

InitChecksum ==
    /\ Started
    /\ WorkerAlone
    /\ MULTS = "STATES"
    /\ ck_in \in CkData \X CkData
    /\ ck_out = <<>>
    /\ cm_in = <<>>
    /\ cm_out = NotCompressed
    /\ last_qso_timestamp = <<>>
    /\ images = {}
    /\ cycles = 0
    /\ SKIP_TIMESTAMP_CHECK = FALSE

Checksum ==
    /\ ck_out = <<>>
    /\ ck_out' = <<checksum(ck_in[1]), checksum(ck_in[2])>>
    /\ UNCHANGED <<qso_log, operator, station, radio_info, operators, stations,
                   parser, logged, raised, last, nmsgs, MULTS, ck_in, cm_in, cm_out,
                   last_qso_timestamp, images, cycles, SKIP_TIMESTAMP_CHECK, system>>

NextChecksum == Checksum

SpecChecksum == InitChecksum /\ [][NextChecksum]_vars

(***************************************************************************)
(* Operators and Stations on their own: lookups, and the construction of   *)
(* new instances on another store.  The dicts are attributes of the        *)
(* classes (operators = {} and stations = {} in the class bodies), which   *)
(* __init__ fills and never rebinds, so that a new instance starts from    *)
(* the dict of the instances before it.                                    *)
(***************************************************************************)
\* for row in self.cursor: self.operators[row[1]] = row[0]
LoadNames(dict, table) ==
    [name \in DOMAIN dict \cup {r.name : r \in table} |->
        IF \E r \in table : r.name = name
        THEN (CHOOSE r \in table : r.name = name).id
        ELSE dict[name]]

RegistryNames == {<<"O", "1">>, <<"O", "2">>, <<"O", "3">>}

\* the name tables of the stores an instance may be constructed on: a new
\* database, and one that holds a row already
RegistryStores == {{}, {[id |-> 1, name |-> <<"O", "3">>]}}

\* operators.lookup_operator_id(operator)
LookupOperator(name) ==
    /\ raised = ""
    /\ \E w \in {lookup_operator_id(World, name)} :
           /\ operator' = w.operator
           /\ operators' = w.operators
           /\ raised' = w.raised
    /\ UNCHANGED <<qso_log, station, radio_info, stations, parser, logged, last, nmsgs,
                   MULTS, ck_in, ck_out, cm_in, cm_out,
                   last_qso_timestamp, images, cycles, SKIP_TIMESTAMP_CHECK, system>>

\* stations.lookup_station_id(station)
LookupStation(name) ==
    /\ raised = ""
    /\ \E w \in {lookup_station_id(World, name)} :
           /\ station' = w.station
           /\ stations' = w.stations
           /\ raised' = w.raised
    /\ UNCHANGED <<qso_log, operator, radio_info, operators, parser, logged, last, nmsgs,
                   MULTS, ck_in, ck_out, cm_in, cm_out,
                   last_qso_timestamp, images, cycles, SKIP_TIMESTAMP_CHECK, system>>

\* Operators(db, cursor) and Stations(db, cursor) on another store
Construct(operatorTable, stationTable) ==
    /\ raised = ""
    /\ operator' = operatorTable
    /\ station' = stationTable
    /\ operators' = LoadNames(operators, operatorTable)
    /\ stations' = LoadNames(stations, stationTable)
    /\ UNCHANGED <<qso_log, radio_info, parser, logged, raised, last, nmsgs,
                   MULTS, ck_in, ck_out, cm_in, cm_out,
                   last_qso_timestamp, images, cycles, SKIP_TIMESTAMP_CHECK, system>>

NextRegistry ==
    \/ \E name \in RegistryNames : LookupOperator(name)
    \/ \E name \in RegistryNames : LookupStation(name)
    \/ \E o, t \in RegistryStores : Construct(o, t)

SpecRegistry == Init /\ [][NextRegistry]_vars

(***************************************************************************)
(* compress_message on its own: every byte sequence of newlines, spaces    *)
(* and one other byte up to a length.                                      *)
(***************************************************************************)
\* the length of the longest byte sequence
MaxLen == 4

CmInputs == UNION {[1..n -> {Chr("\n"), Chr(" "), Chr("a")}] : n \in 0..MaxLen}

InitCompress ==
    /\ Started
    /\ WorkerAlone
    /\ MULTS = "STATES"
    /\ ck_in = <<>>
    /\ ck_out = <<>>
    /\ cm_in \in CmInputs
    /\ cm_out = NotCompressed
    /\ last_qso_timestamp = <<>>
    /\ images = {}
    /\ cycles = 0
    /\ SKIP_TIMESTAMP_CHECK = FALSE

Compress ==
    /\ ~cm_out.done
    /\ cm_out' = [done |-> TRUE, msg |-> compress_message(cm_in)]
    /\ UNCHANGED <<qso_log, operator, station, radio_info, operators, stations,
                   parser, logged, raised, last, nmsgs, MULTS, ck_in, ck_out, cm_in,
                   last_qso_timestamp, images, cycles, SKIP_TIMESTAMP_CHECK, system>>

NextCompress == Compress

SpecCompress == InitCompress /\ [][NextCompress]_vars

(***************************************************************************)
(* The headless renderer: main of headless.py calls create_images once per *)
(* dwell time, while the collector's worker writes the contact log.        *)
(***************************************************************************)
\* the number of create_images cycles a run of the model makes
MaxCycles == 2

\* timestamp a is earlier than timestamp b (year, month, ..., second)
RECURSIVE Earlier(_, _)
Earlier(a, b) ==
    IF a = <<>> THEN FALSE
    ELSE IF Head(a) # Head(b) THEN Head(a) < Head(b)
    ELSE Earlier(Tail(a), Tail(b))

\* dataaccess.get_last_qso, its first result: the time of the last contact
\* of the log; for an empty log a time that is no contact's
get_last_qso(log) ==
    IF log = {} THEN <<0, 0, 0, 0, 0, 0>>
    ELSE CHOOSE t \in {r.timestamp : r \in log} :
             \A r \in log : ~Earlier(t, r.timestamp)

InitHeadless ==
    /\ Started
    /\ WorkerAlone
    /\ MULTS = "SECTIONS"
    /\ ck_in = <<>>
    /\ ck_out = <<>>
    /\ cm_in = <<>>
    /\ cm_out = NotCompressed
    /\ last_qso_timestamp = <<>>
    /\ images = {}
    /\ cycles = 0
    /\ SKIP_TIMESTAMP_CHECK \in BOOLEAN

\* one cycle of main's loop: create_images loads the aggregates and draws
\* the data-dependent charts when the time of the last contact differs from
\* the one the cycle before returned, and returns that time
create_images ==
    /\ cycles < MaxCycles
    /\ \E last_qso_time \in {get_last_qso(qso_log)} :
           /\ images' = IF last_qso_time # last_qso_timestamp \/ SKIP_TIMESTAMP_CHECK
                        THEN qso_log ELSE images
           /\ last_qso_timestamp' = last_qso_time
    /\ cycles' = cycles + 1
    /\ UNCHANGED <<qso_log, operator, station, radio_info, operators, stations,
                   parser, logged, raised, last, nmsgs, MULTS, ck_in, ck_out,
                   cm_in, cm_out, SKIP_TIMESTAMP_CHECK, system>>

\* a cycle whose queries raise sqlite3.OperationalError: create_images
\* returns None before it draws
create_images_error ==
    /\ cycles < MaxCycles
    /\ last_qso_timestamp' = None
    /\ cycles' = cycles + 1
    /\ UNCHANGED <<qso_log, operator, station, radio_info, operators, stations,
                   parser, logged, raised, last, nmsgs, MULTS, ck_in, ck_out,
                   cm_in, cm_out, images, SKIP_TIMESTAMP_CHECK, system>>

\* the worker of the collector adds, replaces with other values and deletes
\* contacts between the cycles
NextHeadless ==
    \/ \E m \in
         { Contact("contactinfo", ID1, T1, Five, Five, S1, N12, K1, B14, e, "compact") :
               e \in {<<"2", "a">>, <<"3", "a">>} }
         \cup { Contact("contactinfo", ID3, T2, Five, Five, S1, N12, K1, B14, <<"2", "a">>, "compact"),
                Contact("contactreplace", ID1, T1, Five, Five, S1, N12, K1, B14, <<"3", "a">>, "pretty"),
                Delete(ID1, None, None, None, None), Delete(ID3, None, None, None, None) } :
           ProcessMessage(m, 0)
    \/ create_images
    \/ create_images_error

SpecHeadless == InitHeadless /\ [][NextHeadless]_vars

(***************************************************************************)
(* main and message_processor: the orchestrator receives datagrams and     *)
(* puts them on q; the worker, a multiprocessing.Process, sets up the      *)
(* store and takes them off q.  The two are separate processes: the        *)
(* global run that the worker assigns is the copy of its own process.      *)
(***************************************************************************)
\* the number of datagrams the orchestrator receives in a run of the model
MaxRecv == 3

\* the datagrams on the network
SysMessages ==
    { Contact("contactinfo", ID1, T1, Five, Five, S1, N12, K1, B14, <<"2", "a">>, "compact"),
      Contact("contactinfo", ID1, T1, Five, Five, S1, N12, K1, B14, <<"3", "a">>, "compact"),
      Delete(ID1, None, None, None, None),
      Msg("RadioInfo", <<F("NetBiosName", <<"p", "c">>), F("IsRunning", TrueToken)>>, "pretty") }

\* a radio status row a previous run left in the store
StaleRadio ==
    [station_name |-> <<"O", "L", "D">>, radio_nr |-> 1, freq |-> 70000, tx_freq |-> 70000,
     mode |-> <<"C", "W">>, op_call |-> <<>>, is_running |-> 0, is_transmitting |-> 0,
     is_connected |-> 0, is_split |-> 0, is_active |-> 0, radio_name |-> <<>>,
     antenna |-> 0, last_update |-> 0]

\* variant of the start-up of message_processor: the radio status is kept
setup_keeping_radio_info(w) ==
    [w EXCEPT !.operators = LoadNames(@, w.operator),
              !.stations = LoadNames(@, w.station)]

\* message_processor up to its loop: create_tables, clear_radio_info,
\* Operators(db, cursor), Stations(db, cursor)
setup(w) ==
    [clear_radio_info(w) EXCEPT !.operators = LoadNames(@, w.operator),
                                !.stations = LoadNames(@, w.station)]

\* variant of q.get(): the datagram put last is taken first
q_get_last(queue) == [item |-> queue[Len(queue)], rest |-> SubSeq(queue, 1, Len(queue) - 1)]

\* q.get() on a queue that holds a datagram
q_get(queue) == [item |-> Head(queue), rest |-> Tail(queue)]

\* q.put(udp_data)
q_put(queue, udp_data) == Append(queue, udp_data)

InitSystem ==
    /\ qso_log = {}
    /\ operator = {}
    /\ station = {}
    /\ radio_info \in {{}, {StaleRadio}}
    /\ operators = EmptyDict
    /\ stations = EmptyDict
    /\ parser = NewParser
    /\ logged = ""
    /\ raised = ""
    /\ last = NoMsg
    /\ nmsgs = 0
    /\ MULTS = "STATES"
    /\ ck_in = <<>>
    /\ ck_out = <<>>
    /\ cm_in = <<>>
    /\ cm_out = NotCompressed
    /\ last_qso_timestamp = <<>>
    /\ images = {}
    /\ cycles = 0
    /\ SKIP_TIMESTAMP_CHECK = FALSE
    /\ mpc = "while"
    /\ wpc = "start"
    /\ q = <<>>
    /\ event = FALSE
    /\ run = TRUE
    /\ worker_run = TRUE
    /\ thread_run = TRUE
    /\ received = <<>>
    /\ processed = <<>>

StoreUnchanged ==
    UNCHANGED <<qso_log, operator, station, radio_info, operators, stations,
                parser, logged, last, nmsgs, MULTS, ck_in, ck_out, cm_in, cm_out,
                   last_qso_timestamp, images, cycles, SKIP_TIMESTAMP_CHECK>>

\* main: while run
MainWhile ==
    /\ mpc = "while"
    /\ mpc' = IF run THEN "recv" ELSE "finally"
    /\ UNCHANGED <<wpc, q, event, run, worker_run, thread_run, received, processed, raised>>
    /\ StoreUnchanged

\* variant of main's loop body: the datagram received is processed by the
\* orchestrator itself, on the store, and not put on the queue
MainRecv_processing(m) ==
    /\ mpc = "recv"
    /\ Len(received) < MaxRecv
    /\ received' = Append(received, m)
    /\ \E r \in {process_message(parser, World, Wire[m], MULTS, 0)} :
           /\ parser' = r.parser
           /\ qso_log' = r.w.qso_log
           /\ operator' = r.w.operator
           /\ station' = r.w.station
           /\ radio_info' = r.w.radio_info
           /\ operators' = r.w.operators
           /\ stations' = r.w.stations
           /\ logged' = r.w.logged
    /\ mpc' = "while"
    /\ UNCHANGED <<wpc, q, event, run, worker_run, thread_run, processed, raised, last, nmsgs>>
    /\ UNCHANGED <<MULTS, ck_in, ck_out, cm_in, cm_out,
                   last_qso_timestamp, images, cycles, SKIP_TIMESTAMP_CHECK>>

\* main: receive_socket.recv returns a datagram, q.put(udp_data)
MainRecv(m) ==
    /\ mpc = "recv"
    /\ Len(received) < MaxRecv
    /\ q' = q_put(q, m)
    /\ received' = Append(received, m)
    /\ mpc' = "while"
    /\ UNCHANGED <<wpc, event, run, worker_run, thread_run, processed, raised>>
    /\ StoreUnchanged

\* main: receive_socket.recv raises socket.timeout after 5 s
MainTimeout ==
    /\ mpc = "recv"
    /\ mpc' = "while"
    /\ UNCHANGED <<wpc, q, event, run, worker_run, thread_run, received, processed, raised>>
    /\ StoreUnchanged

\* main: KeyboardInterrupt in the receive loop
MainInterrupt ==
    /\ mpc \in {"while", "recv"}
    /\ mpc' = "finally"
    /\ UNCHANGED <<wpc, q, event, run, worker_run, thread_run, received, processed, raised>>
    /\ StoreUnchanged

\* variant of main's finally: the worker is terminated at once, with no
\* proc.join(60) before
MainFinally_terminating ==
    /\ mpc = "finally"
    /\ event' = TRUE
    /\ mpc' = "done"
    /\ wpc' = IF wpc \in {"exited", "crashed"} THEN wpc ELSE "killed"
    /\ UNCHANGED <<q, run, worker_run, thread_run, received, processed, raised>>
    /\ StoreUnchanged

\* main: receive_socket.close(), process_event.set()
MainFinally ==
    /\ mpc = "finally"
    /\ event' = TRUE
    /\ mpc' = "join"
    /\ UNCHANGED <<wpc, q, run, worker_run, thread_run, received, processed, raised>>
    /\ StoreUnchanged

WorkerGone == wpc \in {"exited", "crashed", "killed"}

\* the worker waits in q.get() for a datagram that is not there
WorkerBlocked == wpc = "get" /\ q = <<>>

\* main: proc.join(60) returns because the worker process has ended
MainJoined ==
    /\ mpc = "join"
    /\ WorkerGone
    /\ mpc' = "done"
    /\ UNCHANGED <<wpc, q, event, run, worker_run, thread_run, received, processed, raised>>
    /\ StoreUnchanged

\* main: proc.join(60) returns after 60 s in which the worker made no step,
\* proc.is_alive(), proc.terminate()
MainTerminate ==
    /\ mpc = "join"
    /\ WorkerBlocked
    /\ wpc' = "killed"
    /\ mpc' = "done"
    /\ UNCHANGED <<q, event, run, worker_run, thread_run, received, processed, raised>>
    /\ StoreUnchanged

\* message_processor: sqlite3.connect .. N1mmMessageParser()
WorkerStart ==
    /\ wpc = "start"
    /\ \E w \in {setup(World)} :
           /\ radio_info' = w.radio_info
           /\ operators' = w.operators
           /\ stations' = w.stations
    /\ parser' = NewParser
    /\ wpc' = "while"
    /\ UNCHANGED <<qso_log, operator, station, logged, raised, last, nmsgs, MULTS,
                   ck_in, ck_out, cm_in, cm_out,
                   last_qso_timestamp, images, cycles, SKIP_TIMESTAMP_CHECK>>
    /\ UNCHANGED <<mpc, q, event, run, worker_run, thread_run, received, processed>>

\* message_processor: the store cannot be opened (sqlite3.connect raises,
\* before the try) or set up (create_tables raises, inside it)
WorkerStartFails ==
    /\ wpc = "start"
    /\ raised' = "OperationalError"
    /\ wpc' = "crashed"
    /\ \E in_try \in BOOLEAN : worker_run' = ~in_try
    /\ UNCHANGED <<mpc, q, event, run, thread_run, received, processed>>
    /\ StoreUnchanged

\* message_processor: while not event.is_set() and thread_run; when the
\* loop ends, finally: db.close(), run = False
WorkerWhile ==
    /\ wpc = "while"
    /\ IF ~event /\ thread_run
       THEN wpc' = "get" /\ worker_run' = worker_run
       ELSE wpc' = "exited" /\ worker_run' = FALSE
    /\ UNCHANGED <<mpc, q, event, run, thread_run, received, processed, raised>>
    /\ StoreUnchanged

\* message_processor: udp_data = q.get(), process_message(...)
WorkerProcess(now) ==
    /\ wpc = "get"
    /\ q # <<>>
    /\ \E g \in {q_get(q)} :
           /\ q' = g.rest
           /\ processed' = Append(processed, g.item)
           /\ last' = g.item
           /\ \E r \in {process_message(parser, World, Wire[g.item], MULTS, now)} :
                  /\ parser' = r.parser
                  /\ qso_log' = r.w.qso_log
                  /\ operator' = r.w.operator
                  /\ station' = r.w.station
                  /\ radio_info' = r.w.radio_info
                  /\ operators' = r.w.operators
                  /\ stations' = r.w.stations
                  /\ logged' = r.w.logged
                  /\ raised' = r.w.raised
                  /\ wpc' = IF r.w.raised = "" THEN "while" ELSE "crashed"
                  /\ worker_run' = IF r.w.raised = "" THEN worker_run ELSE FALSE
    /\ nmsgs' = nmsgs + 1
    /\ UNCHANGED <<MULTS, ck_in, ck_out, cm_in, cm_out,
                   last_qso_timestamp, images, cycles, SKIP_TIMESTAMP_CHECK, mpc, event, run, thread_run, received>>

\* message_processor: the store raises while a datagram is processed
\* (sqlite3.Error of execute or commit); the exception is not caught,
\* finally: db.close(), run = False
WorkerCrash ==
    /\ wpc = "get"
    /\ q # <<>>
    /\ \E g \in {q_get(q)} :
           /\ q' = g.rest
           /\ processed' = Append(processed, g.item)
           /\ last' = g.item
    /\ nmsgs' = nmsgs + 1
    /\ raised' = "OperationalError"
    /\ wpc' = "crashed"
    /\ worker_run' = FALSE
    /\ UNCHANGED <<qso_log, operator, station, radio_info, operators, stations,
                   parser, logged, MULTS, ck_in, ck_out, cm_in, cm_out,
                   last_qso_timestamp, images, cycles, SKIP_TIMESTAMP_CHECK>>
    /\ UNCHANGED <<mpc, event, run, thread_run, received>>

\* message_processor: KeyboardInterrupt in q.get(): thread_run = False
WorkerInterrupt ==
    /\ wpc = "get"
    /\ thread_run' = FALSE
    /\ wpc' = "while"
    /\ UNCHANGED <<mpc, q, event, run, worker_run, received, processed, raised>>
    /\ StoreUnchanged

MainStep == MainWhile \/ (\E m \in SysMessages : MainRecv(m)) \/ MainTimeout
                \/ MainFinally \/ MainJoined \/ MainTerminate

\* a step of the worker process; the store failing under it is one
WorkerStep ==
    \/ WorkerStart
    \/ WorkerWhile
    \/ WorkerCrash
    \/ \E now \in (IF q # <<>> /\ IsRadioInfo(q_get(q).item) THEN Times ELSE {0}) :
           WorkerProcess(now)

NextSystem ==
    \/ MainStep
    \/ MainInterrupt
    \/ WorkerStep
    \/ WorkerStartFails
    \/ WorkerInterrupt

SpecSystem == InitSystem /\ [][NextSystem]_vars

\* both processes are scheduled: the orchestrator's loop turns (recv returns
\* a datagram or times out), and the worker runs whenever it is not waiting
\* in q.get() on an empty queue.  Interrupts and a store that cannot be
\* opened are events of the environment and need not happen.
SpecSystemFair == SpecSystem /\ WF_vars(MainStep) /\ WF_vars(WorkerStep)

(***************************************************************************)
(* What the claims say, stated on the messages themselves: the fields a    *)
(* message carries on the wire and the values they denote.                 *)
(***************************************************************************)
HasField(m, name) == \E i \in 1..Len(m.fields) : m.fields[i][1] = name

Field(m, name) ==
    IF HasField(m, name)
    THEN m.fields[CHOOSE i \in 1..Len(m.fields) : m.fields[i][1] = name][2]
    ELSE None

FieldOr(m, name, default) == IF HasField(m, name) THEN Field(m, name) ELSE default

WellFormed(m) == m.shape \in WellFormedShapes

IsContact(m) == m.root \in {"contactinfo", "contactreplace"}

IsDelete(m) == m.root = "contactdelete"

HasId(m) == HasField(m, "ID")

HasFallback(m) == \A i \in 1..Len(RequiredFields) : HasField(m, RequiredFields[i])

\* the timestamps in the format YYYY-MM-DD HH:MM:SS and the time they denote
GoodTimestamp(ts) == ts \in {T1, T2}

TimeOf(ts) == IF ts = T1 THEN <<2024, 6, 22, 18, 30, 45>> ELSE <<2024, 6, 22, 18, 30, 46>>

\* the frequency fields that are integers >= 0, and the integer they denote
Wire1402500 == <<"1", "4", "0", "2", "5", "0", "0">>

NonNegativeInteger(f) == f \in {<<"0">>, Five, Wire1402500}

IntegerOf(f) == IF f = <<"0">> THEN 0 ELSE IF f = Five THEN 5 ELSE 1402500

\* negative, fractional and non-numeric frequency fields
BadFrequency(f) == f \in {<<"-", "1">>, <<"1", ".", "5">>, <<"x">>}

KnownBand(b) == b = B14

NotHyphen(c) == c # "-"

\* the identity key: the ID without its hyphens, otherwise the digest of
\* timestamp, StationName, contestnr and call
ExpectedKey(m) ==
    IF HasId(m) THEN SelectSeq(Field(m, "ID"), NotHyphen)
    ELSE md5(Field(m, "timestamp") \o Field(m, "StationName")
                 \o Field(m, "contestnr") \o Field(m, "call"))

\* a contact message that passes every validation and names a known band
ValidContact(m) ==
    /\ IsContact(m) /\ WellFormed(m)
    /\ HasId(m) \/ HasFallback(m)
    /\ GoodTimestamp(Field(m, "timestamp"))
    /\ NonNegativeInteger(Field(m, "rxfreq")) /\ NonNegativeInteger(Field(m, "txfreq"))
    /\ KnownBand(Field(m, "band"))

\* a ProcessMessage step
Processed == nmsgs' = nmsgs + 1

TablesUnchanged ==
    /\ qso_log' = qso_log /\ operator' = operator /\ station' = station
    /\ radio_info' = radio_info

NoException == raised' = "" 

NameOfId(table, id) == {r.name : r \in {x \in table : x.id = id}}

\* row r of the contact log holds the values of message m
Reflects(r, m, operatorTable, stationTable) ==
    /\ r.timestamp = TimeOf(Field(m, "timestamp"))
    /\ r.rx_freq = 10 * IntegerOf(Field(m, "rxfreq"))
    /\ r.tx_freq = 10 * IntegerOf(Field(m, "txfreq"))
    /\ r.callsign = Upper(FieldOr(m, "call", <<>>))
    /\ r.exchange = Upper(FieldOr(m, "exchange1", <<>>))
    /\ NameOfId(operatorTable, r.operator_id) = {Upper(FieldOr(m, "operator", <<>>))}
    /\ NameOfId(stationTable, r.station_id) = {Upper(FieldOr(m, "StationName", <<>>))}

RowsOfKey(log, key) == {r \in log : r.qso_id = key}

OtherRows(log, key) == {r \in log : r.qso_id # key}

(***************************************************************************)
(* The claims                                                              *)
(***************************************************************************)
C1_Step ==
    Processed =>
        /\ \A r1, r2 \in qso_log' : r1.qso_id = r2.qso_id => r1 = r2
        /\ (ValidContact(last') /\ HasId(last')) =>
               /\ Cardinality(RowsOfKey(qso_log', ExpectedKey(last'))) = 1
               /\ \A r \in RowsOfKey(qso_log', ExpectedKey(last')) :
                      Reflects(r, last', operator', station')
               /\ OtherRows(qso_log', ExpectedKey(last')) = OtherRows(qso_log, ExpectedKey(last'))
               /\ NoException

\* C1: whatever contact and delete messages are processed, the contact log
\* holds at most one row per identity key, and after a valid contact message
\* with an explicit ID the log holds exactly one row for that ID (hyphens
\* removed), with the values of that message, the other rows untouched.
C1_UpsertByExplicitId == [][C1_Step]_vars

\* C1 witness: the second of two contact messages with the same ID and
\* different values (two operators registered) has replaced the first row.
C1_Witness ==
    /\ nmsgs = 2 /\ ValidContact(last) /\ HasId(last)
    /\ Cardinality(qso_log) = 1 /\ Cardinality(operator) = 2
    /\ \A r \in qso_log : Reflects(r, last, operator, station)

MalformedPayload(m) == m.shape \in MalformedShapes

C2_Step == (Processed /\ MalformedPayload(last')) => (TablesUnchanged /\ NoException)

\* C2: a malformed XML payload (mismatched tags, truncated final tag, missing
\* closing tag, binary garbage, embedded NUL) is processed without an
\* exception and leaves every table unchanged.
C2_MalformedLeavesStore == [][C2_Step]_vars

\* the validation failures of a contact message
InvalidContact(m) ==
    /\ IsContact(m) /\ WellFormed(m)
    /\ \/ ~GoodTimestamp(Field(m, "timestamp"))
       \/ ~NonNegativeInteger(Field(m, "rxfreq"))
       \/ ~NonNegativeInteger(Field(m, "txfreq"))
       \/ ~HasId(m) /\ ~HasFallback(m)

\* messages the worker may find next in the queue
Probes ==
    { Contact("contactinfo", ID1, T1, Five, Five, S1, N12, K1, B14, <<"3", "a">>, "compact"),
      Contact("contactinfo", None, T2, Five, Five, S1, N12, K1, B14, <<"2", "a">>, "compact"),
      Delete(ID2, None, None, None, None) }

WorldOf(ql, op, st, ri, ops, sts) ==
    [qso_log |-> ql, operator |-> op, station |-> st, radio_info |-> ri,
     operators |-> ops, stations |-> sts, logged |-> "", raised |-> ""]

C3_Step ==
    (Processed /\ InvalidContact(last')) =>
        /\ TablesUnchanged /\ NoException
        /\ logged' # ""
        /\ \A n \in Probes :
               process_message(parser', WorldOf(qso_log', operator', station', radio_info',
                                                operators', stations'), Wire[n], MULTS, 0)
                   = process_message(parser, World, Wire[n], MULTS, 0)

\* C3: a contact message that fails validation (timestamp missing or not in
\* the format; rxfreq or txfreq missing, non-integer or negative; no ID and
\* a fallback field missing) raises nothing, is logged, changes no table,
\* and the next message is processed as if it had never arrived.
C3_ValidationFailureIsLocal == [][C3_Step]_vars

\* C3 witness: a contact with a timestamp in another format was rejected
\* after an earlier contact had been stored, and the stored row is still there.
C3_Witness ==
    /\ nmsgs = 2 /\ InvalidContact(last) /\ Field(last, "timestamp") = TBad
    /\ Cardinality(qso_log) = 1 /\ raised = "" /\ logged # ""

SameFallback(m, n) ==
    \A i \in 1..Len(RequiredFields) : Field(m, RequiredFields[i]) = Field(n, RequiredFields[i])

C4_Step ==
    (Processed /\ ValidContact(last') /\ ~HasId(last')) =>
        LET after == WorldOf(qso_log', operator', station', radio_info', operators', stations')
            again == process_message(parser', after, Wire[last'], MULTS, 0).w
        IN  /\ Cardinality({r \in qso_log' : Reflects(r, last', operator', station')
                                               /\ r.qso_id = ExpectedKey(last')}) = 1
            /\ Cardinality(RowsOfKey(qso_log', ExpectedKey(last'))) = 1
            /\ again.qso_log = qso_log'
            /\ \A n \in Messages :
                   (ValidContact(n) /\ ~HasId(n) /\ SameFallback(n, last')) =>
                       Cardinality(process_message(parser', after, Wire[n], MULTS, 0).w.qso_log)
                           = Cardinality(qso_log')

\* C4: a valid contact message with no ID is stored under the key derived
\* from its four fallback fields; processing the same message again, or
\* another message with the same four fields, adds no row.
C4_ChecksumKeyNoDuplicate == [][C4_Step]_vars

\* C4 witness: the same four fallback fields arrived twice without ID, with
\* different values, and the log holds one row, that of the second message.
C4_Witness ==
    /\ nmsgs = 2 /\ ValidContact(last) /\ ~HasId(last)
    /\ Cardinality(qso_log) = 1 /\ Cardinality(operator) = 2
    /\ \A r \in qso_log : Reflects(r, last, operator, station) /\ r.qso_id = ExpectedKey(last)

\* C5: the key of checksum depends on nothing but timestamp, StationName,
\* contestnr and call: equal in the four, equal keys; different in exactly
\* one of the four, different keys.
C5_ChecksumPureAndSensitive ==
    ck_out # <<>> =>
        LET differing == {i \in 1..Len(RequiredFields) :
                              ck_in[1][RequiredFields[i]] # ck_in[2][RequiredFields[i]]}
        IN  /\ ck_out[1] # KeyError /\ ck_out[2] # KeyError
            /\ differing = {} => ck_out[1] = ck_out[2]
            /\ Cardinality(differing) = 1 => ck_out[1] # ck_out[2]

\* C5 witness: the keys of two inputs that differ in call alone were computed.
C5_Witness ==
    /\ ck_out # <<>>
    /\ ck_in[1].call # ck_in[2].call
    /\ \A f \in {"timestamp", "StationName", "contestnr"} : ck_in[1][f] = ck_in[2][f]

\* a delete message that carries an identity
IdentifiedDelete(m) == IsDelete(m) /\ WellFormed(m) /\ (HasId(m) \/ HasFallback(m))

\* the delete names the contact the way the contact named itself
SameIdentity(d, c) ==
    \/ HasId(d) /\ HasId(c) /\ Field(d, "ID") = Field(c, "ID")
    \/ ~HasId(d) /\ ~HasId(c) /\ SameFallback(d, c)

C6_Step ==
    (Processed /\ IdentifiedDelete(last')) =>
        /\ qso_log' = OtherRows(qso_log, ExpectedKey(last'))
        /\ operator' = operator /\ station' = station /\ radio_info' = radio_info
        /\ NoException
        /\ (ValidContact(last) /\ SameIdentity(last', last)) =>
               /\ Cardinality(qso_log \ qso_log') = 1
               /\ \A r \in qso_log \ qso_log' : Reflects(r, last, operator, station)

\* C6: a contactdelete removes the rows whose key is its ID without hyphens,
\* or with no ID the checksum of its four fallback fields, and nothing else;
\* sent after a stored contact with the same ID or the same four fields, it
\* removes exactly that contact's row.
C6_DeleteUsesSameKeyRule == [][C6_Step]_vars

\* C6 witness: a contact stored without ID was removed by a contactdelete
\* carrying its four fallback fields.
C6_Witness ==
    /\ nmsgs = 2 /\ IdentifiedDelete(last) /\ ~HasId(last)
    /\ qso_log = {} /\ operator # {} /\ raised = ""

C7_Step ==
    (Processed /\ IdentifiedDelete(last')) =>
        LET after == WorldOf(qso_log', operator', station', radio_info', operators', stations')
            again == process_message(parser', after, Wire[last'], MULTS, 0).w
        IN  /\ RowsOfKey(qso_log, ExpectedKey(last')) = {} => (TablesUnchanged /\ NoException)
            /\ again.qso_log = qso_log' /\ again.operator = operator'
            /\ again.station = station' /\ again.radio_info = radio_info'
            /\ again.raised = ""

\* C7: a contactdelete whose key matches no stored row changes no table and
\* raises nothing, and a contactdelete processed a second time leaves the
\* store as the first left it.
C7_DeleteIdempotent == [][C7_Step]_vars

\* C7 witness: a contactdelete was processed whose key matched no row, while
\* a contact with another key was stored, and the row is still there.
C7_Witness ==
    /\ nmsgs = 2 /\ IdentifiedDelete(last) /\ raised = ""
    /\ Cardinality(qso_log) = 1
    /\ RowsOfKey(qso_log, ExpectedKey(last)) = {}

C8_Step ==
    (Processed /\ IsDelete(last') /\ WellFormed(last') /\ ~HasId(last') /\ ~HasFallback(last')) =>
        /\ TablesUnchanged
        /\ operators' = operators /\ stations' = stations
        /\ logged' = "contactdelete missing required fields"
        /\ NoException

\* C8: a contactdelete with no ID that lacks one of timestamp, StationName,
\* contestnr, call changes nothing in the store, is logged as a warning and
\* raises nothing.
C8_DeleteWithoutIdentityDropped == [][C8_Step]_vars

\* C8 witness: a contactdelete with no ID and no call was dropped while a
\* contact was stored.
C8_Witness ==
    /\ nmsgs = 2 /\ IsDelete(last) /\ ~HasId(last) /\ ~HasField(last, "call")
    /\ HasField(last, "timestamp")
    /\ Cardinality(qso_log) = 1 /\ logged = "contactdelete missing required fields"

ScenarioKey == <<"a", "b", "c", "d", "e", "f", "1", "2", "3">>

ScenarioStored ==
    /\ Cardinality(qso_log) = 1
    /\ \A r \in qso_log : r.qso_id = ScenarioKey /\ r.rx_freq = 14025000

ValidButFrequency(m) ==
    /\ IsContact(m) /\ WellFormed(m)
    /\ HasId(m) \/ HasFallback(m)
    /\ GoodTimestamp(Field(m, "timestamp"))
    /\ KnownBand(Field(m, "band"))
    /\ HasField(m, "rxfreq") /\ HasField(m, "txfreq")

C10_Step ==
    (Processed /\ ValidButFrequency(last')) =>
        LET rx == Field(last', "rxfreq")
            tx == Field(last', "txfreq")
        IN  /\ (NonNegativeInteger(rx) /\ NonNegativeInteger(tx)) =>
                   /\ Cardinality(RowsOfKey(qso_log', ExpectedKey(last'))) = 1
                   /\ \A r \in RowsOfKey(qso_log', ExpectedKey(last')) :
                          r.rx_freq = 10 * IntegerOf(rx) /\ r.tx_freq = 10 * IntegerOf(tx)
            /\ (BadFrequency(rx) \/ BadFrequency(tx)) =>
                   (TablesUnchanged /\ NoException /\ logged' # "")

\* C10: a contact message valid in everything else is stored when rxfreq and
\* txfreq are integers >= 0, "0" included, and is refused with nothing
\* stored when either is negative ("-1"), fractional ("1.5") or not a number.
C10_FrequencyAcceptance == [][C10_Step]_vars

\* C10 witness: a contact with rxfreq "0" is stored with rx_freq 0.
C10_Witness ==
    /\ ValidButFrequency(last) /\ Field(last, "rxfreq") = <<"0">>
    /\ \E r \in qso_log : r.qso_id = ExpectedKey(last) /\ r.rx_freq = 0

\* the worker process has ended by itself: its loop ended, or an exception
\* ended it
WorkerEnded == wpc \in {"exited", "crashed"}

\* C11: once the orchestrator has set the stop event, the worker eventually
\* ends by itself, also when the queue is empty at that moment.
C11_StopReachesWorker == event ~> WorkerEnded

\* the orchestrator is in its receive loop
Receiving == mpc \in {"while", "recv"}

\* C12: when the worker has terminated on an exception (the store could not
\* be opened or set up, or the store raised while a datagram was processed),
\* the orchestrator's receive loop eventually stops.
C12_OrchestratorSeesWorkerDeath == (wpc = "crashed") ~> ~Receiving

\* the datagrams the worker took from the queue and processed to the end:
\* all of processed, but for the one under which the store raised
Completed ==
    IF wpc = "crashed" /\ processed # <<>>
    THEN SubSeq(processed, 1, Len(processed) - 1)
    ELSE processed

\* datagram i of Completed wrote or removed the row of key
Touches(i, key) ==
    /\ ValidContact(Completed[i]) \/ IdentifiedDelete(Completed[i])
    /\ ExpectedKey(Completed[i]) = key

\* C13: the datagrams the worker has taken are, in order, the first of the
\* datagrams the orchestrator has put on the queue, the rest still being on
\* the queue in order (none taken twice, none skipped); and the row of a
\* contact key holds the values of the last processed contact with that key.
C13_QueueOrderKept ==
    /\ processed \o q = received
    /\ \A i \in 1..Len(Completed) :
           (/\ ValidContact(Completed[i])
            /\ \A j \in (i + 1)..Len(Completed) : ~Touches(j, ExpectedKey(Completed[i])))
               => /\ Cardinality(RowsOfKey(qso_log, ExpectedKey(Completed[i]))) = 1
                  /\ \A r \in RowsOfKey(qso_log, ExpectedKey(Completed[i])) :
                         Reflects(r, Completed[i], operator, station)

\* C13 witness: two contacts with one ID and different values were received
\* and processed in that order, and the row holds the values of the second.
C13_Witness ==
    /\ Len(Completed) = 2 /\ received = processed
    /\ ValidContact(processed[1]) /\ ValidContact(processed[2])
    /\ processed[1] # processed[2]
    /\ ExpectedKey(processed[1]) = ExpectedKey(processed[2])
    /\ \A r \in qso_log : Reflects(r, processed[2], operator, station)
    /\ Cardinality(qso_log) = 1

\* a registry (the dict of an Operators or Stations instance, and its table)
\* before and after a step: the id of a name stays, every name of the dict
\* has exactly one row, with the id the dict gives, and no two names share
\* an id
RegistryKept(dict, table, dictAfter, tableAfter) ==
    /\ \A n \in DOMAIN dict : n \in DOMAIN dictAfter /\ dictAfter[n] = dict[n]
    /\ table \subseteq tableAfter
    /\ \A n \in DOMAIN dictAfter :
           {r.id : r \in {x \in tableAfter : x.name = n}} = {dictAfter[n]}
    /\ \A r1, r2 \in tableAfter : (r1.name = r2.name \/ r1.id = r2.id) => r1 = r2
    /\ \A n1, n2 \in DOMAIN dictAfter : dictAfter[n1] = dictAfter[n2] => n1 = n2

C14_Step ==
    Processed =>
        LET after == WorldOf(qso_log', operator', station', radio_info', operators', stations')
        IN  /\ RegistryKept(operators, operator, operators', operator')
            /\ RegistryKept(stations, station, stations', station')
            /\ \A n \in DOMAIN operators' : lookup_operator_id(after, n) = after
            /\ \A n \in DOMAIN stations' : lookup_station_id(after, n) = after
            /\ (ValidContact(last') /\ NoException) =>
                   /\ Upper(FieldOr(last', "operator", <<>>)) \in DOMAIN operators'
                   /\ Upper(FieldOr(last', "StationName", <<>>)) \in DOMAIN stations'

\* C14: on the Operators and the Stations instance of the worker, a name
\* looked up again gets the id it got the first time and no new row; every
\* name has exactly one row in its table, and no id belongs to two names.
C14_RegistryIdsStable == [][C14_Step]_vars

\* C14 witness: two contacts with different keys and the same operator and
\* station were stored; each table holds the one row of the name.
C14_Witness ==
    /\ nmsgs = 2 /\ ValidContact(last) /\ Cardinality(qso_log) = 2
    /\ Cardinality(operator) = 1 /\ Cardinality(station) = 1
    /\ DOMAIN operators = {Upper(FieldOr(last, "operator", <<>>))}

\* a contact message to which no objection but its band or mode is possible
ValidButBandMode(m) ==
    /\ IsContact(m) /\ WellFormed(m)
    /\ HasId(m) \/ HasFallback(m)
    /\ GoodTimestamp(Field(m, "timestamp"))
    /\ NonNegativeInteger(Field(m, "rxfreq")) /\ NonNegativeInteger(Field(m, "txfreq"))

\* of the modes on the wire, cw alone is a mode of Modes.MODES_LIST
KnownMode(mode) == mode = <<"c", "w">>

C15_StepAsStated ==
    (/\ Processed /\ ValidButBandMode(last')
     /\ ~KnownBand(Field(last', "band")) \/ ~KnownMode(Field(last', "mode")))
        => (qso_log' = qso_log /\ NoException /\ logged' # "")

C15_Step ==
    (Processed /\ ValidButBandMode(last')) =>
        /\ ~KnownBand(Field(last', "band")) =>
               /\ qso_log' = qso_log /\ operator' = operator /\ station' = station
               /\ logged' = "cannot record contact"
               /\ NoException
        /\ (KnownBand(Field(last', "band")) /\ ~KnownMode(Field(last', "mode"))) =>
               /\ {r.mode_id : r \in RowsOfKey(qso_log', ExpectedKey(last'))} = {0}
               /\ NoException

WireNumber(f) == f \in {<<"0">>, <<"1">>, <<"2">>, <<"3">>, Five}

NumberOf(f) == IF f = <<"0">> THEN 0 ELSE IF f = <<"1">> THEN 1 ELSE IF f = <<"2">> THEN 2 ELSE IF f = <<"3">> THEN 3 ELSE 5

\* the value of a numeric field: the number it carries, its default when the
\* field is absent or no number
NumberOr(m, name, default) ==
    IF HasField(m, name) /\ WireNumber(Field(m, name)) THEN NumberOf(Field(m, name))
    ELSE default

TrueOr0(m, name) == IF HasField(m, name) /\ Field(m, name) = <<"T", "r", "u", "e">> THEN 1 ELSE 0

HasStation(m) == HasField(m, "StationName") \/ HasField(m, "NetBiosName")

StationOf(m) ==
    IF HasField(m, "StationName") THEN Upper(Field(m, "StationName"))
    ELSE Upper(FieldOr(m, "NetBiosName", <<>>))

\* the radio status row a RadioInfo message received at time now asks for
RadioRow(m, now) ==
    [station_name |-> StationOf(m),
     radio_nr |-> NumberOr(m, "RadioNr", 1),
     freq |-> 10 * NumberOr(m, "Freq", 0),
     tx_freq |-> 10 * NumberOr(m, "TXFreq", 0),
     mode |-> Upper(FieldOr(m, "Mode", <<>>)),
     op_call |-> Upper(FieldOr(m, "OpCall", <<>>)),
     is_running |-> TrueOr0(m, "IsRunning"),
     is_transmitting |-> TrueOr0(m, "IsTransmitting"),
     is_connected |-> TrueOr0(m, "IsConnected"),
     is_split |-> TrueOr0(m, "IsSplit"),
     is_active |-> IF NumberOr(m, "RadioNr", 1) = NumberOr(m, "ActiveRadioNr", 0) THEN 1 ELSE 0,
     radio_name |-> FieldOr(m, "RadioName", <<>>),
     antenna |-> NumberOr(m, "Antenna", 0),
     last_update |-> now]

SameRadio(r1, r2) == r1.station_name = r2.station_name /\ r1.radio_nr = r2.radio_nr

C16_Step ==
    Processed =>
        /\ \A r1, r2 \in radio_info' : SameRadio(r1, r2) => r1 = r2
        /\ (IsRadioInfo(last') /\ WellFormed(last') /\ HasStation(last')) =>
               \E now \in Times :
                   radio_info' = {r \in radio_info : ~SameRadio(r, RadioRow(last', now))}
                                     \cup {RadioRow(last', now)}

\* C16: the radio status table holds at most one row per (station name,
\* radio number), and after a RadioInfo message the row of its key is the
\* row of that message alone: the fields it carries, the defaults for those
\* it does not, nothing of the row that was there; other rows are untouched.
C16_RadioRowOverwritten == [][C16_Step]_vars

\* C16 witness: after a RadioInfo message with every field, one with the
\* same key and no other field was processed; the row holds the defaults.
C16_Witness ==
    /\ processed = <<RadioFull, RadioKeyOnly>>
    /\ \E now \in Times : radio_info = {RadioRow(RadioKeyOnly, now)}
    /\ \A r \in radio_info : r.freq = 0 /\ r.mode = <<>> /\ r.is_running = 0 /\ r.antenna = 0

\* the RadioInfo field values that are no number
NonNumeric(f) == f \in {<<"x">>, <<"i", "n", "v">>}

HasNonNumeric(m, name) == HasField(m, name) /\ NonNumeric(Field(m, name))

NumericFields == {"RadioNr", "Freq", "TXFreq", "Antenna", "ActiveRadioNr"}

C18_Step ==
    (/\ Processed /\ IsRadioInfo(last') /\ WellFormed(last') /\ HasStation(last')
     /\ \E name \in NumericFields : HasNonNumeric(last', name)) =>
        /\ NoException
        /\ \E r \in radio_info' :
               /\ r.station_name = StationOf(last')
               /\ HasNonNumeric(last', "RadioNr") => r.radio_nr = 1
               /\ HasNonNumeric(last', "Freq") => r.freq = 0
               /\ HasNonNumeric(last', "TXFreq") => r.tx_freq = 0
               /\ HasNonNumeric(last', "Antenna") => r.antenna = 0
               /\ HasNonNumeric(last', "ActiveRadioNr") => r.is_active = (IF r.radio_nr = 0 THEN 1 ELSE 0)
               /\ ~HasNonNumeric(last', "RadioNr") => r.radio_nr = NumberOr(last', "RadioNr", 1)
               /\ ~HasNonNumeric(last', "Freq") => r.freq = 10 * NumberOr(last', "Freq", 0)

\* C18: a RadioInfo message whose RadioNr, Freq, TXFreq, Antenna or
\* ActiveRadioNr is no number raises no exception and is persisted: its row
\* is written with the default of that field (RadioNr 1, Freq 0, TXFreq 0,
\* Antenna 0, ActiveRadioNr 0) and the values of its numeric fields.
C18_NonNumericRadioFieldDefaults == [][C18_Step]_vars

\* C18 witness: a RadioInfo message with a non-numeric RadioNr and Freq 5
\* was processed and its row is stored for radio 1 with the frequency 50.
C18_Witness ==
    /\ last \in RadioInfoMessages /\ HasNonNumeric(last, "RadioNr")
    /\ raised = ""
    /\ \E r \in radio_info : r.station_name = StationOf(last) /\ r.radio_nr = 1 /\ r.freq = 50 /\ r.is_active = 1

C19_Step ==
    (Processed /\ IsRadioInfo(last') /\ ~HasStation(last')) => radio_info' = radio_info

\* C19: StationName or NetBiosName is required in a RadioInfo message: a
\* RadioInfo message that carries neither of them writes no radio status
\* row.
C19_RadioInfoNeedsStation == [][C19_Step]_vars

\* the worker is past its start-up
WorkerStarted == wpc \in {"while", "get", "exited", "killed"} \/ processed # <<>>

C17_Step ==
    \* the start-up clears the table, before any datagram is taken
    /\ (wpc = "start" /\ wpc' = "while") =>
           radio_info' = {} /\ processed = <<>> /\ processed' = <<>>
    \* the start-up happens once
    /\ wpc' = "start" => wpc = "start"
    \* a datagram is taken only after the start-up
    /\ processed' # processed => wpc # "start"
    \* no other step removes the row of a radio
    /\ ~(wpc = "start" /\ wpc' = "while") =>
           \A r \in radio_info : \E r2 \in radio_info' : SameRadio(r, r2)
    \* no row of the previous run is left once the worker is started
    /\ WorkerStarted' => StaleRadio \notin radio_info'

\* C17: the radio status table is cleared once when the worker starts,
\* before the first datagram is taken from the queue, so that no row of a
\* previous run is there once processing begins; after that no step removes
\* the row of a radio.
C17_RadioStatusClearedAtStart == [][C17_Step]_vars

\* C17 witness: the worker has started and processed a RadioInfo datagram;
\* the table holds the row of that datagram and no row of a previous run.
C17_Witness ==
    /\ wpc = "while"
    /\ processed # <<>> /\ IsRadioInfo(processed[Len(processed)])
    /\ radio_info # {}
    /\ StaleRadio \notin radio_info

\* the same field mapping under the other of the two contact types
Twin(m) == [m EXCEPT !.root = IF @ = "contactinfo" THEN "contactreplace" ELSE "contactinfo"]

ContactDatagrams == {m \in Messages : IsContact(m)}

TwinWire == [m \in ContactDatagrams |-> Parse(compress_message(Datagram(Twin(m))))]

C20_Step ==
    (Processed /\ IsContact(last')) =>
        \E r \in {process_message(parser, World, TwinWire[last'], MULTS, 0)} :
            /\ r.w.qso_log = qso_log'
            /\ r.w.operator = operator'
            /\ r.w.station = station'
            /\ r.w.radio_info = radio_info'
            /\ r.w.operators = operators'
            /\ r.w.stations = stations'
            /\ r.w.raised = raised'
            /\ (r.w.logged = "") = (logged' = "")

\* C20: contactinfo and contactreplace are handled alike: from every state
\* of the store, a field mapping processed as contactinfo and the same
\* mapping processed as contactreplace leave the same store (contact log,
\* operator and station tables, radio status) and the same caches, and
\* raise or log alike.
C20_ContactReplaceAsContactInfo == [][C20_Step]_vars

\* C20 witness: a contactreplace message was processed after a contactinfo
\* message of the same ID and is the one row of the contact log.
C20_Witness ==
    /\ nmsgs = 2
    /\ last.root = "contactreplace" /\ WellFormed(last)
    /\ Cardinality(qso_log) = 1
    /\ \A r \in qso_log : Reflects(r, last, operator, station)

KnownTypes == {"contactinfo", "contactreplace", "RadioInfo", "contactdelete"}

\* a message of the live-score type, of a type the worker does not know, or
\* of no type: a root element without child elements
Ignored(m) ==
    /\ WellFormed(m)
    /\ m.root = "dynamicresults" \/ m.root \notin KnownTypes \/ m.fields = <<>>

C21_Step ==
    (Processed /\ Ignored(last')) =>
        /\ TablesUnchanged /\ NoException
        /\ operators' = operators /\ stations' = stations

\* C21: a dynamicresults message, a message of an unrecognized type and a
\* message of no type (a root element with no child element) change no
\* table and raise no exception.
C21_OtherTypesIgnored == [][C21_Step]_vars

\* C21 witness: a message of an unknown type was processed after a contact
\* was stored, and the contact is still the one row of the log.
C21_Witness ==
    /\ nmsgs = 2 /\ Ignored(last) /\ last.root \notin KnownTypes \cup {"dynamicresults"}
    /\ Cardinality(qso_log) = 1 /\ raised = ""

C22_Step ==
    (Processed /\ MalformedPayload(last')) =>
        \E p \in {parse(parser, Wire[last'])} : p.raised

\* C22: N1mmMessageParser.parse raises ExpatError for every payload that is
\* not well-formed XML (a tag or the root left unclosed, a mismatched tag,
\* an invalid byte, text that is no XML); it returns no mapping for it.
C22_ParseRejectsMalformed == [][C22_Step]_vars

\* payloads that are well-formed XML
WellFormedXml(m) ==
    /\ m.shape \in WellFormedShapes \cup {"nested"}
    /\ \A i \in 1..Len(m.fields) : \A j \in 1..Len(m.fields[i][2]) :
           m.fields[i][2][j] \notin {UndefinedEntity, "&"}

C23_Step ==
    (Processed /\ WellFormedXml(last')) =>
        \E p \in {parse(parser, Wire[last'])} :
            /\ ~p.raised
            /\ MessageTypeKey \in DOMAIN p.self.result
            /\ p.self.result[MessageTypeKey] = last'.root

\* C23: for every well-formed payload the mapping parse returns has the
\* type key, and its value is the name of the root element, never that of a
\* nested element, at whatever depth the elements are nested.
C23_TypeKeyIsRootName == [][C23_Step]_vars

FieldNames(m) == {m.fields[i][1] : i \in 1..Len(m.fields)}

C24_Step ==
    Processed =>
        \E reused \in {parse(parser, Wire[last'])}, new \in {parse(NewParser, Wire[last'])} :
            /\ reused.raised = new.raised
            /\ reused.self.result = new.self.result
            /\ parser'.result = new.self.result
            /\ DOMAIN reused.self.result \subseteq FieldNames(last') \cup {MessageTypeKey}

\* C24: a call of parse on a parser that was used before gives what the
\* same call gives on a new parser: the mapping (and whether ExpatError is
\* raised) depends on the payload of that call alone and holds no key of an
\* earlier call, an earlier call that raised part-way included.
C24_ParseCallsIndependent == [][C24_Step]_vars

\* C24 witness: parse raised part-way through a mismatched payload, the
\* same parser then parsed a well-formed one and holds its fields alone.
C24_Witness ==
    /\ processed = <<PayloadMismatch, PayloadGood>>
    /\ DOMAIN parser.result = {"call", "band", MessageTypeKey}
    /\ parser.result["call"] = <<"w", "1">>

\* the text of a leaf, each entity reference replaced by its character
TextOf(value) == [i \in 1..Len(value) |-> IF value[i] = AmpEntity THEN "&" ELSE value[i]]

\* the mapping holds the whole text of every leaf of m that has text, and no
\* leaf of m that has none
LeavesComplete(m, result) ==
    \A i \in 1..Len(m.fields) :
        IF m.fields[i][2] = <<>> THEN \A k \in DOMAIN result : k # m.fields[i][1]
        ELSE \E k \in DOMAIN result : k = m.fields[i][1] /\ result[k] = TextOf(m.fields[i][2])

\* the handler calls parser.Parse makes on the payload as it is
Payload == [m \in ParserMessages |-> Parse(Datagram(m))]

C27_Step ==
    (Processed /\ WellFormedXml(last')) =>
        \E p \in {parse(parser, Payload[last'])} :
            ~p.raised /\ LeavesComplete(last', p.self.result)

\* C27: for a well-formed payload the mapping parse returns holds, for
\* every leaf with text, the whole text of the leaf, also when expat hands
\* the text over in several calls of char_data (around an entity reference
\* or a line break); a leaf without text is not in the mapping.
C27_LeafTextComplete == [][C27_Step]_vars

\* the byte sequence without its runs of a newline and the spaces after it:
\* a newline that a space follows goes with all those spaces, every other
\* byte stays
RECURSIVE WithoutRuns(_, _)
WithoutRuns(msg, inRun) ==
    IF msg = <<>> THEN <<>>
    ELSE IF inRun /\ IsByte32(Head(msg)) THEN WithoutRuns(Tail(msg), TRUE)
    ELSE IF IsByte10(Head(msg)) /\ Len(msg) > 1 /\ IsByte32(msg[2])
         THEN WithoutRuns(Tail(msg), TRUE)
    ELSE <<Head(msg)>> \o WithoutRuns(Tail(msg), FALSE)

NewlineThenSpace(msg) == \E i \in 1..(Len(msg) - 1) : IsByte10(msg[i]) /\ IsByte32(msg[i + 1])

\* C25: compress_message removes every run of a newline followed by one or
\* more spaces and nothing else: its output is the input without those runs,
\* every other byte unchanged and in order, and holds no newline that a
\* space follows.
C25_CompressRemovesRunsOnly ==
    cm_out.done => (cm_out.msg = WithoutRuns(cm_in, FALSE) /\ ~NewlineThenSpace(cm_out.msg))

\* C26: compress_message returns a payload that holds no newline followed
\* by a space unchanged, newlines that no space follows included.
C26_CompressIdentity ==
    (cm_out.done /\ ~NewlineThenSpace(cm_in)) => cm_out.msg = cm_in

C28_Step ==
    \* the stop event is set before the orchestrator waits for the worker
    /\ (mpc' = "join" /\ mpc # "join") => (mpc = "finally" /\ event')
    \* the worker is terminated only while the orchestrator waits for it,
    \* after the stop event, and only when it is still alive
    /\ (wpc' = "killed" /\ wpc # "killed") => (mpc = "join" /\ event /\ ~WorkerGone)
    \* the orchestrator is done only when the worker runs no more
    /\ (mpc' = "done" /\ mpc # "done") => (mpc = "join" /\ WorkerGone')

CachedRows(dict, table) ==
    \A name \in DOMAIN dict : \E r \in table : r.name = name /\ r.id = dict[name]

\* C29: every name -> id pair an Operators or Stations instance holds is a
\* row of the store the instance was constructed on, so a lookup returns
\* the id of an existing row of that name; an instance constructed on
\* another or an emptied store holds no pair of an earlier instance.
C29_CacheWithinStore == CachedRows(operators, operator) /\ CachedRows(stations, station)

\* a valid contact message that is identified by its four fallback fields
FallbackContact(m) == ValidContact(m) /\ ~HasId(m) /\ HasFallback(m)

C30_Step ==
    (Processed /\ FallbackContact(last')) =>
        LET after == WorldOf(qso_log', operator', station', radio_info', operators', stations')
        IN  \A n \in Messages :
                (FallbackContact(n) /\ ~SameFallback(n, last')) =>
                    /\ ExpectedKey(n) # ExpectedKey(last')
                    /\ \E w \in {process_message(parser', after, Wire[n], MULTS, 0).w} :
                           \E r \in w.qso_log : Reflects(r, last', w.operator, w.station)

\* C30: two contact messages without ID whose (timestamp, StationName,
\* contestnr, call) differ, in one field or in several, have different
\* identity keys: after the one is stored, processing the other leaves the
\* row of the first in the log.
C30_DifferentTuplesDifferentKeys == [][C30_Step]_vars

C31_Step ==
    (cycles' = cycles + 1 /\ last_qso_timestamp' # None) => images' = qso_log

\* C31: every create_images cycle that completes leaves the data-dependent
\* charts drawn from the contact log as it is at that cycle, so a contact
\* added, replaced with other values or deleted since the cycle before is
\* always reloaded and redrawn.
C31_ImagesNeverStale == [][C31_Step]_vars

\* the rows a step writes: rows of the log after it that were not there before
Persisted == qso_log' \ qso_log

C32_Step ==
    Processed =>
        \A r \in Persisted :
            /\ NonNegativeInteger(Field(last', "rxfreq"))
            /\ NonNegativeInteger(Field(last', "txfreq"))
            /\ r.rx_freq = 10 * IntegerOf(Field(last', "rxfreq"))
            /\ r.tx_freq = 10 * IntegerOf(Field(last', "txfreq"))

\* C32: every contact row process_message writes has rx_freq and tx_freq
\* equal to 10 times the integers of the message's rxfreq and txfreq fields,
\* and in every state of the store both frequencies of every row are
\* multiples of 10 that are not negative.
C32_FrequenciesTimesTen ==
    /\ [][C32_Step]_vars
    /\ [](\A r \in qso_log : /\ r.rx_freq >= 0 /\ r.rx_freq % 10 = 0
                             /\ r.tx_freq >= 0 /\ r.tx_freq % 10 = 0)

\* C32 witness: the contact of the scenario, with rxfreq and txfreq 1402500
\* on the wire, is in the log with 14025000 Hz, beside a row of 50 Hz.
C32_Witness ==
    /\ last = ScenarioWithBand
    /\ \E r \in qso_log : r.rx_freq = 14025000 /\ r.tx_freq = 14025000
    /\ \E r \in qso_log : r.rx_freq = 50 /\ r.tx_freq = 50

ContactTypes == {"contactinfo", "contactreplace", "contactdelete"}

RegistriesUnchanged ==
    /\ operator' = operator /\ station' = station
    /\ operators' = operators /\ stations' = stations

C33_Step ==
    Processed =>
        /\ last'.root = "RadioInfo" => (qso_log' = qso_log /\ RegistriesUnchanged)
        /\ last'.root \in ContactTypes => radio_info' = radio_info
        /\ last'.root = "contactdelete" => RegistriesUnchanged

\* C33: processing a RadioInfo message leaves the contact log and the
\* operator and station registries as they were, processing a contactinfo,
\* contactreplace or contactdelete message leaves the radio-status table as
\* it was, and a contactdelete leaves the operator and station rows as they
\* were.
C33_TypesDoNotInterfere == [][C33_Step]_vars

\* C33 witness: a RadioInfo message has written a radio-status row for a
\* station beside the contact log, which holds a contact of that station.
C33_Witness ==
    /\ last.root = "RadioInfo"
    /\ radio_info # {}
    /\ qso_log # {}
    /\ \A r \in radio_info : \E x \in station : x.name = r.station_name

\* a step that performs a store operation with an effect: a table or a
\* registry's dict is not as it was
StoreWritten ==
    \/ qso_log' # qso_log \/ radio_info' # radio_info
    \/ operator' # operator \/ station' # station
    \/ operators' # operators \/ stations' # stations

C34_Step ==
    /\ StoreWritten => (mpc' = mpc /\ received' = received /\ wpc \in {"start", "get"})
    /\ mpc' # mpc => ~StoreWritten

\* C34: every step that writes the store is a step of the worker process,
\* made at its start-up or on a datagram it took from the queue; a step of
\* the orchestrator writes nothing to the store, and while the orchestrator
\* is in its receive loop it can always make its next step, whatever the
\* worker is doing with the store.
C34_OnlyWorkerTouchesStore ==
    /\ [][C34_Step]_vars
    /\ [](mpc \in {"while", "recv"} => ENABLED MainStep)

\* C34 witness: the orchestrator has put a second datagram on the queue
\* after the worker wrote the contact of the first to the store, and is
\* back in its loop while the worker has yet to take the second.
C34_Witness ==
    /\ Len(received) = 2
    /\ Len(processed) = 1
    /\ qso_log # {}
    /\ mpc = "while"
    /\ Len(q) = 1

\* the timestamp or a frequency of the message is missing or invalid
NotValidated(m) ==
    \/ ~GoodTimestamp(Field(m, "timestamp"))
    \/ ~NonNegativeInteger(Field(m, "rxfreq"))
    \/ ~NonNegativeInteger(Field(m, "txfreq"))

C35_Step ==
    (Processed /\ IdentifiedDelete(last') /\ NotValidated(last')) =>
        /\ RowsOfKey(qso_log', ExpectedKey(last')) = {}
        /\ OtherRows(qso_log', ExpectedKey(last')) = OtherRows(qso_log, ExpectedKey(last'))
        /\ logged' = ""
        /\ NoException

\* C35: a contactdelete that carries an ID, or all four fallback fields,
\* deletes the row of its key, and no other row, without a warning or an
\* exception, although its timestamp or a frequency field is missing or
\* invalid.
C35_DeleteValidatesIdentityOnly == [][C35_Step]_vars

\* C35 witness: a contactdelete with an ID, a timestamp that is not in the
\* required format and no frequency field has removed the stored contact.
C35_Witness ==
    /\ nmsgs = 2
    /\ last = Delete(ID1, TBad, S1, N12, K1)
    /\ qso_log = {}
    /\ operator # {}
    /\ logged = ""
    /\ raised = ""

\* the message advertises, as a number, the active radio
AdvertisesActive(m) == HasField(m, "ActiveRadioNr") /\ WireNumber(Field(m, "ActiveRadioNr"))

C36_Step ==
    (Processed /\ IsRadioInfo(last') /\ WellFormed(last')) =>
        \A r \in radio_info' :
            (/\ r.station_name = StationOf(last')
             /\ r.radio_nr = NumberOr(last', "RadioNr", 1)
             /\ r.is_active = 1) =>
                /\ AdvertisesActive(last')
                /\ NumberOf(Field(last', "ActiveRadioNr")) = r.radio_nr

\* C36: the radio-status row a RadioInfo message writes has is_active = 1
\* only if the message carries an ActiveRadioNr field that is a number equal
\* to the message's radio number; with no ActiveRadioNr field, or one that
\* is no number, the row has is_active = 0.
C36_ActiveOnlyWhenAdvertised == [][C36_Step]_vars

====
